---- MODULE Spec2Model ----
(***************************************************************************)
(* Control plane of cpu-manager-go: the state manager's control cycle      *)
(* (state/manager.go), the cgroup manager operations it calls              *)
(* (cgroup/manager.go), the background goroutines they start and the main  *)
(* loop that drives them (main.go).                                        *)
(***************************************************************************)
EXTENDS Integers, FiniteSets, Sequences, TLC

\* ---------------------------------------------------------------- bounds
\* number of ticker firings explored
MaxTicks == 3
\* pending background goroutines of one kind per UID
MaxPending == 1
\* calls of ForceActivateLimits / ForceDeactivateLimits explored
MaxForced == 1

\* ------------------------------------------------------ program constants
\* limitsAppliedTime: time.Time{}
ZeroTime == -1
\* period of the shared quota, fmt.Sprintf("%d 100000", totalQuota)
QuotaPeriod == 100000

\* UIDs inside [SystemUIDMin, SystemUIDMax] that may show up on the host
Users == {1001, 1002}
\* core counts of the hosts explored
CoreCounts == {1, 4}
\* the sets of active users a snapshot may report
UserSets == {{}, {1001}, {1001, 1002}}

\* decisions of makeDecision
DecisionActivate == "ACTIVATE_LIMITS"
DecisionMaintain == "MAINTAIN_CURRENT_STATE"
DecisionDeactivate == "DEACTIVATE_LIMITS"

VARIABLES
    cfg,                \* Manager.cfg
    totalCores,         \* what MetricsCollector.GetTotalCores() returns
    now,                \* wall clock, seconds
    mainPc,             \* position of main(): "start", "loop"
    limitsActive,       \* Manager.limitsActive
    limitsAppliedTime,  \* Manager.limitsAppliedTime
    activeUsers,        \* Manager.activeUsers (the tracked UIDs)
    sharedCgroupPath,   \* Manager.sharedCgroupPath
    dirs,               \* directories on disk
    sharedCpuMax,       \* what was written to limited/cpu.max
    createdCgroups,     \* cgroup.Manager.createdCgroups
    procCgroup,         \* cgroup the processes of a UID sit in
    forced,             \* calls of the Force* entry points so far
    placeTasks,         \* pending placement goroutines per UID
    restoreTasks,       \* pending goroutines of ApplyCPULimit per UID
    cyc,                \* the last operation: snapshot, decision, pre-state
    t0,                 \* when a control cycle last switched the limits on
    roundTrip,          \* activate/deactivate pairing and the tree before
    trackingFile,       \* lines of cfg.CreatedCgroupsFile, "<uid>:<path>"
    quota,              \* the string handed to isValidCPUQuotaFormat
    quotaResult,        \* what isValidCPUQuotaFormat returned for it
    procOwner,          \* /proc: the real UID of the process behind each PID
    scanUid,            \* the UID a placement scan is run for
    scanPid,            \* the PID the scan is at
    scanPc,             \* position of the scan within MoveProcess for scanPid
    written,            \* owners of the PIDs written to cgroup.procs so far
    cyclePos,           \* position of the control loop inside a cycle
    cache,              \* keys of Collector.cache that are still valid
    pendingReload,      \* watchLoop: pendingReload, debounce timer armed
    fileChanged,        \* config file differs from lastModTime/lastFileSize
    sighupTasks,        \* goroutines started for SIGHUP, not yet run
    reloads,            \* writes of the configuration file so far
    clearedAt,          \* the cyclePos values at which OnConfigChange ran
    settings,           \* what the config file and the environment set
    loaded,             \* what LoadAndValidate returned for them
    confFile,           \* the configuration file: mtime, size, CPU_THRESHOLD
    lastApplied,        \* Watcher.lastModTime, Watcher.lastFileSize
    currentConfig,      \* Watcher.currentConfig
    handler,            \* the goroutines inside handleConfigChange
    appliedInfos,       \* the file states handed to OnConfigChange so far
    wPending,           \* watchLoop: pendingReload
    events,             \* notifications of fsnotify not yet received
    hupTasks,           \* goroutines started for SIGHUP, still asleep
    hups,               \* SIGHUPs received so far
    clock,              \* wall clock of the watch loop, seconds
    timerAt,            \* debounceTimer: when it expires, if armed
    openedAt,           \* when the pending reload was first notified
    windows,            \* debounce periods opened so far
    attempts,           \* calls of handleConfigChange by the watch loop
    ctxDone,            \* main: the context was cancelled
    exitCode,           \* exit status of the process, once it has ended
    cgroupV2,           \* <cgroup_root>/cgroup.controllers can be read
    rootControllers,    \* controllers listed in the root cgroup.controllers
    rootSubtree,        \* controllers enabled in the root subtree_control
    baseExists,         \* <cgroup_root>/<base> exists
    baseSubtree,        \* controllers enabled in <base>/cgroup.subtree_control
    prepPc,             \* position of verifyCgroupSetup
    prepErr,            \* the error verifyCgroupSetup returned, "" for nil
    cacheClock,         \* time.Now() of the collector, seconds
    cacheTicks,         \* advances of cacheClock so far
    cacheValues,        \* Collector.cache, the keys followed
    cacheTimestamps,    \* Collector.cacheTimestamps, the keys followed
    fillers,            \* entries of Collector.cache under other keys
    cleanupTasks,       \* goroutines started for cleanupCache, not yet run
    stored,             \* per key: the last setInCache since the last ClearCache
    lookup,             \* the call of getFromCache just made and its result
    onceDone,           \* logging: once.Do has run
    logLevel,           \* Logger.level
    logSink,            \* where the Logger writes: a file path or "stdout"
    logPc,              \* position of main in its start-up
    want,               \* LogLevel and LogFile of the configuration applied last
    canOpen,            \* the log files os.OpenFile can open
    logSize,            \* size of the log file, in messages
    logMu,              \* Logger.mu: "free" or the goroutine holding it
    logCall,            \* position of each goroutine inside logInternal
    logReloads,         \* reloads that changed LOG_LEVEL so far
    calm,               \* from now on every snapshot is below the release level
    rwReaders,          \* Manager.mu: read locks held
    rwWriter,           \* Manager.mu: "none", or a Lock "pending" or "held"
    statusPc,           \* position of each caller of GetStatus
    lockPc,             \* position of the control cycle around m.mu.Lock()
    statusCalls,        \* calls of GetStatus that have returned
    lockCalls,          \* m.mu.Lock() calls of the control cycle so far
    isRunning,          \* Watcher.isRunning
    stopChan,           \* Watcher.stopChan: "open" or "closed"
    calls,              \* the Start and Stop calls made so far, in order
    loops,              \* watchLoop goroutines: started, running
    panicked            \* a call has panicked

stateVars == <<limitsActive, limitsAppliedTime, activeUsers, sharedCgroupPath>>
fsVars == <<dirs, sharedCpuMax, createdCgroups, procCgroup>>
taskVars == <<placeTasks, restoreTasks>>
\* the control plane: managers, file system, goroutines, history
mainVars == <<cfg, totalCores, now, mainPc, limitsActive, limitsAppliedTime,
              activeUsers, sharedCgroupPath, dirs, sharedCpuMax,
              createdCgroups, procCgroup, forced, placeTasks, restoreTasks,
              cyc, t0, roundTrip, trackingFile>>
quotaVars == <<quota, quotaResult>>
scanVars == <<procOwner, scanUid, scanPid, scanPc, written>>
reloadVars == <<cyclePos, cache, pendingReload, fileChanged, sighupTasks,
                reloads, clearedAt>>
confVars == <<settings, loaded>>
\* the variables of the specifications further down
watchVars == <<confFile, lastApplied, currentConfig, handler, appliedInfos,
               wPending, events, hupTasks, hups>>
debounceVars == <<clock, timerAt, openedAt, windows, attempts>>
downVars == <<ctxDone, exitCode>>
prepVars == <<cgroupV2, rootControllers, rootSubtree, baseExists, baseSubtree,
              prepPc, prepErr>>
cacheVars == <<cacheClock, cacheTicks, cacheValues, cacheTimestamps, fillers,
               cleanupTasks, stored, lookup>>
logVars == <<onceDone, logLevel, logSink, logPc, want, canOpen, logSize,
             logMu, logCall, logReloads>>
calmVars == <<calm>>
lockVars == <<rwReaders, rwWriter, statusPc, lockPc, statusCalls, lockCalls>>
startVars == <<isRunning, stopChan, calls, loops, panicked>>
syncVars == <<lockVars, startVars>>
restVars == <<downVars, prepVars, cacheVars, logVars, calmVars,
                   syncVars>>
extVars == <<confVars, watchVars, debounceVars, restVars>>
\* what the watcher leaves alone
watchRest == <<mainVars, quotaVars, scanVars, reloadVars, confVars,
               debounceVars, restVars>>

vars == <<mainVars, quotaVars, scanVars, reloadVars, extVars>>

\* ------------------------------------------------------------ path names
\* filepath.Join(getBaseCgroupPath(), "limited")
SharedPath == "limited"
LimitedDir == <<"limited", 0>>
\* filepath.Join(sharedPath, fmt.Sprintf("user_%d", uid)); an empty
\* sharedPath gives the relative path user_<uid> in the working directory
JoinUser(sharedPath, uid) ==
    IF sharedPath = "" THEN <<"cwd", uid>> ELSE <<"limited", uid>>
\* filepath.Join(getBaseCgroupPath(), fmt.Sprintf("user_%d", uid))
getUserCgroupPath(uid) == <<"base", uid>>
\* os.MkdirAll creates the missing parents as well
MkdirAll(d, path) ==
    IF path[1] = "limited" THEN d \cup {LimitedDir, path} ELSE d \cup {path}
\* directories below <cgroup_root>/<base>
BaseDirs(d) == {p \in d : p[1] \in {"limited", "base"}}

Max(a, b) == IF a >= b THEN a ELSE b

\* ------------------------------------------------------------ quota strings
\* A string is the sequence of its characters.
DigitChars == <<"0", "1", "2", "3", "4", "5", "6", "7", "8", "9">>
Digits == {DigitChars[i] : i \in DOMAIN DigitChars}
\* unicode.IsSpace, for the characters that occur here
IsSpace(c) == c \in {" ", "\t"}

\* strconv.Itoa for n >= 0
RECURSIVE Itoa(_)
Itoa(n) ==
    IF n < 10 THEN <<DigitChars[n + 1]>>
    ELSE Itoa(n \div 10) \o <<DigitChars[(n % 10) + 1]>>

\* strconv.Atoi returns no error: an optional sign, then one digit or more
\* (no string explored here is long enough to overflow an int)
AtoiOK(tok) ==
    LET body == IF Len(tok) > 0 /\ tok[1] \in {"+", "-"} THEN Tail(tok)
                ELSE tok
    IN  Len(body) > 0 /\ \A i \in DOMAIN body : body[i] \in Digits

\* strings.Fields: the maximal runs of non-space characters, in order;
\* cur is the run being read
RECURSIVE FieldsFrom(_, _)
FieldsFrom(s, cur) ==
    IF s = <<>> THEN (IF cur = <<>> THEN <<>> ELSE <<cur>>)
    ELSE IF IsSpace(Head(s))
         THEN (IF cur = <<>> THEN <<>> ELSE <<cur>>) \o FieldsFrom(Tail(s), <<>>)
         ELSE FieldsFrom(Tail(s), Append(cur, Head(s)))
Fields(s) == FieldsFrom(s, <<>>)

MaxToken == <<"m", "a", "x">>

\* isValidCPUQuotaFormat of the cgroup manager
isValidCPUQuotaFormat(quotaStr) ==
    LET parts == Fields(quotaStr)
    IN  IF Len(parts) # 2 THEN FALSE
        ELSE IF parts[1] = MaxToken THEN AtoiOK(parts[2])
        ELSE AtoiOK(parts[1]) /\ AtoiOK(parts[2])

NoQuota == <<>>
\* fmt.Sprintf("%d 100000", totalQuota)
FormatQuota(q) == Itoa(q) \o <<" ">> \o Itoa(QuotaPeriod)
\* CPUQuotaNormal of config.DefaultConfig(): "max 100000"
QuotaNormalDefault == MaxToken \o <<" ">> \o Itoa(QuotaPeriod)
\* a CPU_QUOTA_NORMAL that is not a quota: "max"
QuotaNormalBad == MaxToken
\* CPUQuotaLimited of config.DefaultConfig(): "50000 100000"
QuotaLimitedDefault == Itoa(50000) \o <<" ">> \o Itoa(QuotaPeriod)

\* config.DefaultConfig(); SystemUIDMax is the fallback value of pidMax
DefaultConfig ==
    [ PollingInterval     |-> 30,
      MinActiveTime       |-> 60,
      CPUThreshold        |-> 75,
      CPUReleaseThreshold |-> 40,
      MinSystemCores      |-> 1,
      IgnoreSystemLoad    |-> FALSE,
      CPUQuotaNormal      |-> QuotaNormalDefault,
      MetricsCacheTTL     |-> 15,
      SystemUIDMin        |-> 1000,
      SystemUIDMax        |-> 60000,
      CPUQuotaLimited     |-> QuotaLimitedDefault,
      LogLevel            |-> "INFO" ]

\* ------------------------------------------------------ config validation
\* strings.Split(s, " "): the pieces between single spaces, empty ones
\* included; cur is the piece being read
RECURSIVE SplitFrom(_, _)
SplitFrom(s, cur) ==
    IF s = <<>> THEN <<cur>>
    ELSE IF Head(s) = " " THEN <<cur>> \o SplitFrom(Tail(s), <<>>)
         ELSE SplitFrom(Tail(s), Append(cur, Head(s)))
Split(s) == SplitFrom(s, <<>>)

\* isValidCPUQuota of the config package
isValidCPUQuota(quotaStr) ==
    LET parts == Split(quotaStr)
    IN  IF Len(parts) # 2 THEN FALSE
        ELSE IF parts[1] = MaxToken THEN AtoiOK(parts[2])
        ELSE AtoiOK(parts[1]) /\ AtoiOK(parts[2])

validLogLevels == {"DEBUG", "INFO", "WARN", "ERROR"}

validateConfig_ThresholdsUnordered(c) ==
    \* without "CPU_THRESHOLD must be greater than CPU_RELEASE_THRESHOLD"
    /\ ~(c.CPUThreshold < 1 \/ c.CPUThreshold > 100)
    /\ ~(c.CPUReleaseThreshold < 1 \/ c.CPUReleaseThreshold > 100)
    /\ ~(c.PollingInterval < 5)
    /\ isValidCPUQuota(c.CPUQuotaLimited)
    /\ c.LogLevel \in validLogLevels
    /\ ~(c.SystemUIDMin < 0)
    /\ ~(c.SystemUIDMax < c.SystemUIDMin)

\* validateConfig returns nil: none of its checks adds an error
validateConfig(c) ==
    /\ ~(c.CPUThreshold < 1 \/ c.CPUThreshold > 100)
    /\ ~(c.CPUReleaseThreshold < 1 \/ c.CPUReleaseThreshold > 100)
    /\ ~(c.CPUThreshold <= c.CPUReleaseThreshold)
    /\ ~(c.PollingInterval < 5)
    /\ isValidCPUQuota(c.CPUQuotaLimited)
    /\ c.LogLevel \in validLogLevels
    /\ ~(c.SystemUIDMin < 0)
    /\ ~(c.SystemUIDMax < c.SystemUIDMin)

\* ----------------------------------------------------- inputs of a cycle
\* the usage levels around the two thresholds
UsageLevels ==
    {cfg.CPUReleaseThreshold - 1, cfg.CPUReleaseThreshold,
     cfg.CPUThreshold - 1, cfg.CPUThreshold}
\* collectSystemMetrics: the snapshot of one cycle; TotalUserCPUUsage is the
\* sum over the active users, so it is 0 when there are none
Snapshots ==
    {[TotalCores |-> totalCores, TotalUserCPUUsage |-> u,
      SystemUnderLoad |-> l, ActiveUsers |-> A] :
        u \in UsageLevels, l \in BOOLEAN, A \in UserSets \ {{}}}
    \cup
    {[TotalCores |-> totalCores, TotalUserCPUUsage |-> 0,
      SystemUnderLoad |-> l, ActiveUsers |-> {}] : l \in BOOLEAN}
\* the snapshot of a cycle in which /proc cannot be read: no getter of the
\* collector reports the failure; the active users come out empty, the
\* usage 0, the load check false, and the core count is the cached one or
\* the fallback 1
UnreadableSnapshots ==
    {[TotalCores |-> c, TotalUserCPUUsage |-> 0,
      SystemUnderLoad |-> FALSE, ActiveUsers |-> {}] : c \in {totalCores, 1}}
\* outcomes of the cgroup file system calls made by activateLimits for the
\* snapshot m: CreateSharedCgroup, ApplySharedCPULimit, and the UIDs for
\* which CreateUserSubCgroup succeeds; only the calls that are made vary
ActivateEnvs(m) ==
    {e \in [sharedOK : BOOLEAN, quotaOK : BOOLEAN,
            subOK : SUBSET (m.ActiveUsers \ activeUsers)] :
        /\ sharedCgroupPath # "" => e.sharedOK /\ e.quotaOK
        /\ ~e.sharedOK => e.quotaOK
        /\ ~(e.sharedOK /\ e.quotaOK) => e.subOK = m.ActiveUsers \ activeUsers}

\* ------------------------------------------------------ state/manager.go
\* time.Since(limitsAppliedTime) < MinActiveTime seconds, evaluated at t;
\* the zero time is further back than any MinActiveTime
MinTimePending_Nanoseconds(t) ==
    \* time.Duration(m.cfg.MinActiveTime) without "* time.Second"
    limitsAppliedTime # ZeroTime /\ t - limitsAppliedTime < 0

MinTimePending(t) ==
    limitsAppliedTime # ZeroTime /\ t - limitsAppliedTime < cfg.MinActiveTime

makeDecisionActive_ReleaseAboveThreshold(m, t) ==
    \* ">" in place of "<" against CPUReleaseThreshold
    IF MinTimePending(t) THEN DecisionMaintain
    ELSE IF m.TotalUserCPUUsage > cfg.CPUReleaseThreshold THEN
        IF ~m.SystemUnderLoad THEN DecisionDeactivate
        ELSE DecisionMaintain
    ELSE DecisionMaintain

makeDecisionActive_ReleaseAtThreshold(m, t) ==
    \* "<=" in place of "<" against CPUReleaseThreshold
    IF MinTimePending(t) THEN DecisionMaintain
    ELSE IF m.TotalUserCPUUsage <= cfg.CPUReleaseThreshold THEN
        IF ~m.SystemUnderLoad THEN DecisionDeactivate
        ELSE DecisionMaintain
    ELSE DecisionMaintain

\* makeDecision, "if limitsActive { ... }"
makeDecisionActive(m, t) ==
    IF MinTimePending(t) THEN DecisionMaintain
    ELSE IF m.TotalUserCPUUsage < cfg.CPUReleaseThreshold THEN
        IF ~m.SystemUnderLoad THEN DecisionDeactivate
        ELSE DecisionMaintain
    ELSE DecisionMaintain

makeDecisionInactive_StrictThreshold(m) ==
    \* ">" in place of ">=" against CPUThreshold
    IF m.TotalUserCPUUsage > cfg.CPUThreshold THEN
        IF m.TotalCores <= cfg.MinSystemCores THEN DecisionMaintain
        ELSE IF ~cfg.IgnoreSystemLoad /\ m.SystemUnderLoad
             THEN DecisionMaintain
        ELSE DecisionActivate
    ELSE DecisionMaintain

\* makeDecision, the part reached with the limits inactive
makeDecisionInactive(m) ==
    IF m.TotalUserCPUUsage >= cfg.CPUThreshold THEN
        IF m.TotalCores <= cfg.MinSystemCores THEN DecisionMaintain
        ELSE IF ~cfg.IgnoreSystemLoad /\ m.SystemUnderLoad
             THEN DecisionMaintain
        ELSE DecisionActivate
    ELSE DecisionMaintain

makeDecision(m, t) ==
    IF limitsActive THEN makeDecisionActive(m, t) ELSE makeDecisionInactive(m)

\* ----------------------------------------------------- cgroup/manager.go
\* saveCgroupToFile: appends the line "<uid>:<path>"
saveCgroupToFile(file, uid, path) == Append(file, <<uid, path>>)

\* removeCgroupFromFile: rewrites the file without the lines of uid
removeCgroupFromFile(file, uid) == SelectSeq(file, LAMBDA l : l[1] # uid)

\* fs is [dirs, created, file]: the directories, the createdCgroups map and
\* the tracking file
CreateUserCgroup(fs, uid) ==
    IF uid \in DOMAIN fs.created THEN fs
    ELSE [dirs |-> MkdirAll(fs.dirs, getUserCgroupPath(uid)),
          created |-> [u \in DOMAIN fs.created \cup {uid} |->
                          IF u = uid THEN getUserCgroupPath(uid)
                          ELSE fs.created[u]],
          file |-> saveCgroupToFile(fs.file, uid, getUserCgroupPath(uid))]

\* ApplyCPULimit up to the start of its goroutine: the directory is created
\* first, then the quota is validated, then cpu.max is written; the write
\* fails when the directory is missing or the file system refuses it
\* (writeOK)
ApplyCPULimit(fs, uid, quotaStr, writeOK) ==
    LET fs1 == IF getUserCgroupPath(uid) \notin fs.dirs
               THEN CreateUserCgroup(fs, uid) ELSE fs
    IN  [fs |-> fs1,
         ok |-> /\ isValidCPUQuotaFormat(quotaStr)
                /\ writeOK /\ getUserCgroupPath(uid) \in fs1.dirs]

\* ApplySharedCPULimit: the quota is validated, then limited/cpu.max is
\* written; cpuMax is the content of the file before the call
ApplySharedCPULimit(cpuMax, quotaStr, writeOK) ==
    IF ~isValidCPUQuotaFormat(quotaStr) THEN [ok |-> FALSE, cpuMax |-> cpuMax]
    ELSE IF ~writeOK THEN [ok |-> FALSE, cpuMax |-> cpuMax]
    ELSE [ok |-> TRUE, cpuMax |-> quotaStr]

\* ApplyCPUWeight: creates the user's own cgroup when it is missing
ApplyCPUWeight(fs, uid) ==
    IF getUserCgroupPath(uid) \notin fs.dirs
    THEN CreateUserCgroup(fs, uid) ELSE fs

\* CreateSharedCgroup
CreateSharedCgroup(d) == MkdirAll(d, LimitedDir)

\* CreateUserSubCgroup
CreateUserSubCgroup(d, uid, sharedPath) == MkdirAll(d, JoinUser(sharedPath, uid))

\* os.RemoveAll(sharedPath) on the cgroup file system: a cgroup that still
\* holds processes cannot be removed, nor can its parent
RemoveAllShared(d, procs) ==
    LET busy == {p \in d : p[1] = "limited" /\ p[2] \in Users
                           /\ procs[p[2]] = "limited"}
        rest == {p \in d : p[1] # "limited"}
    IN  IF busy = {} THEN rest ELSE rest \cup busy \cup {LimitedDir}

\* ------------------------------------------- activateLimits, deactivateLimits
\* Both are given as the record of values the call leaves behind:
\* the manager's fields, the file system, the goroutines it started
\* (place, restore) and whether it returned an error.
Unchanged ==
    [limitsActive |-> limitsActive, limitsAppliedTime |-> limitsAppliedTime,
     activeUsers |-> activeUsers, sharedCgroupPath |-> sharedCgroupPath,
     dirs |-> dirs, sharedCpuMax |-> sharedCpuMax, created |-> createdCgroups,
     file |-> trackingFile,
     place |-> {}, restore |-> {}, err |-> FALSE]

activateLimits(m, t, e) ==
    LET \* phase 1: drop the tracked users that are no longer active
        removed == activeUsers \ m.ActiveUsers
        kept == activeUsers \cap m.ActiveUsers
        needShared == sharedCgroupPath = ""
        \* phase 2: shared cgroup and its total quota
        availableCores == Max(m.TotalCores - cfg.MinSystemCores, 1)
        sharedQuota == FormatQuota(availableCores * QuotaPeriod)
        dirs2 == IF needShared THEN CreateSharedCgroup(dirs) ELSE dirs
        applied == ApplySharedCPULimit(sharedCpuMax, sharedQuota, e.quotaOK)
        cpuMax2 == IF needShared THEN applied.cpuMax ELSE sharedCpuMax
        \* phase 3: sub-cgroups of the users not yet limited
        limited == {u \in m.ActiveUsers \ kept : u \in e.subOK}
        failed == {u \in m.ActiveUsers \ kept : u \notin e.subOK}
        dirs3 == dirs2 \cup
                 UNION {CreateUserSubCgroup({}, u, SharedPath) : u \in limited}
        switchOn == limited # {} \/ removed # {}
    IN  IF needShared /\ ~e.sharedOK THEN
            [Unchanged EXCEPT !.activeUsers = kept, !.err = TRUE]
        ELSE IF needShared /\ ~applied.ok THEN
            [Unchanged EXCEPT !.activeUsers = kept, !.err = TRUE,
                              !.sharedCgroupPath = SharedPath, !.dirs = dirs2]
        ELSE
            [limitsActive |-> IF switchOn THEN TRUE ELSE limitsActive,
             limitsAppliedTime |-> IF switchOn THEN t ELSE limitsAppliedTime,
             activeUsers |-> kept \cup limited,
             sharedCgroupPath |-> SharedPath,
             dirs |-> dirs3, sharedCpuMax |-> cpuMax2,
             created |-> createdCgroups, file |-> trackingFile,
             place |-> limited, restore |-> {}, err |-> failed # {}]

\* the orders in which a range over the map activeUsers may visit the UIDs
Orders(S) ==
    {o \in [1..Cardinality(S) -> S] :
        \A i, j \in 1..Cardinality(S) : i # j => o[i] # o[j]}

RECURSIVE RestoreUsers_StopAtFirstError(_, _, _, _)
RestoreUsers_StopAtFirstError(order, acc, quotaStr, limitOK) ==
    \* "return err" in place of "continue"
    IF order = <<>> THEN acc
    ELSE LET uid == Head(order)
             r == ApplyCPULimit(acc.fs, uid, quotaStr, uid \in limitOK)
         IN  IF ~r.ok THEN [fs |-> r.fs, restore |-> acc.restore, err |-> TRUE]
             ELSE RestoreUsers_StopAtFirstError(Tail(order),
                      [fs |-> r.fs, restore |-> acc.restore \cup {uid},
                       err |-> acc.err],
                      quotaStr, limitOK)

\* the loop over usersToCleanup of deactivateLimits, visiting the UIDs in
\* the given order: acc is [fs, restore, err]
RECURSIVE RestoreUsers(_, _, _, _)
RestoreUsers(order, acc, quotaStr, limitOK) ==
    IF order = <<>> THEN acc
    ELSE LET uid == Head(order)
             r == ApplyCPULimit(acc.fs, uid, quotaStr, uid \in limitOK)
         IN  RestoreUsers(Tail(order),
                 [fs |-> r.fs,
                  restore |-> IF r.ok THEN acc.restore \cup {uid}
                              ELSE acc.restore,
                  err |-> acc.err \/ ~r.ok],
                 quotaStr, limitOK)

deactivateLimits(e) ==
    LET sharedPath == sharedCgroupPath
        r == RestoreUsers(e.order,
                 [fs |-> [dirs |-> dirs, created |-> createdCgroups,
                          file |-> trackingFile],
                  restore |-> {}, err |-> FALSE],
                 cfg.CPUQuotaNormal, e.limitOK)
        dirs2 == IF sharedPath # "" THEN RemoveAllShared(r.fs.dirs, procCgroup)
                 ELSE r.fs.dirs
    IN  [limitsActive |-> FALSE, limitsAppliedTime |-> ZeroTime,
         activeUsers |-> {}, sharedCgroupPath |-> "",
         dirs |-> dirs2,
         sharedCpuMax |-> IF LimitedDir \in dirs2 THEN sharedCpuMax ELSE NoQuota,
         created |-> r.fs.created, file |-> r.fs.file,
         place |-> {}, restore |-> r.restore, err |-> r.err]

\* outcomes of the calls made by deactivateLimits: the UIDs for which the
\* write of cpu.max in ApplyCPULimit succeeds (no write is attempted with a
\* quota that fails the format check) and the order of the loop
DeactivateEnvs ==
    {[limitOK |-> ok, order |-> o] :
        ok \in IF isValidCPUQuotaFormat(cfg.CPUQuotaNormal)
               THEN SUBSET activeUsers ELSE {{}},
        o \in Orders(activeUsers)}

NoActivateEnv == [sharedOK |-> TRUE, quotaOK |-> TRUE, subOK |-> {}]
NoDeactivateEnv == [limitOK |-> {}, order |-> <<>>]

\* the outcomes of the file system calls that executeDecision makes
DecisionEnvs(decision, m) ==
    CASE decision = DecisionActivate ->
            {[act |-> e, deact |-> NoDeactivateEnv] : e \in ActivateEnvs(m)}
      [] decision = DecisionDeactivate ->
            {[act |-> NoActivateEnv, deact |-> e] : e \in DeactivateEnvs}
      [] OTHER ->
            {[act |-> NoActivateEnv, deact |-> NoDeactivateEnv]}

executeDecision(decision, m, t, env) ==
    CASE decision = DecisionActivate -> activateLimits(m, t, env.act)
      [] decision = DecisionDeactivate -> deactivateLimits(env.deact)
      [] decision = DecisionMaintain -> Unchanged

\* MoveAllUserProcessesToSharedCgroup: every process of uid found in /proc
\* goes through MoveProcessToSharedCgroup, which creates the sub-cgroup when
\* missing and writes the PID to its cgroup.procs; under an empty sharedPath
\* that file is a plain file in the working directory and nothing moves.
\* hasProcs: the UID still has processes when /proc is scanned
MoveAllUserProcessesToSharedCgroup(d, procs, uid, sharedPath, hasProcs) ==
    IF ~hasProcs THEN [dirs |-> d, procs |-> [procs EXCEPT ![uid] = "none"]]
    ELSE [dirs |-> IF JoinUser(sharedPath, uid) \notin d
                   THEN CreateUserSubCgroup(d, uid, sharedPath) ELSE d,
          procs |-> IF sharedPath # ""
                    THEN [procs EXCEPT ![uid] = "limited"] ELSE procs]

\* MoveAllUserProcesses: every process of uid found in /proc goes through
\* MoveProcessToCgroup, which needs the UID in createdCgroups
MoveAllUserProcesses(d, created, procs, uid, hasProcs) ==
    IF ~hasProcs THEN [procs EXCEPT ![uid] = "none"]
    ELSE IF uid \in DOMAIN created /\ created[uid] \in d
         THEN [procs EXCEPT ![uid] = "base"] ELSE procs

\* ------------------------------------------------------------ history
NoMetrics ==
    [TotalCores |-> 0, TotalUserCPUUsage |-> 0, SystemUnderLoad |-> FALSE,
     ActiveUsers |-> {}]
NoEnv == [act |-> NoActivateEnv, deact |-> NoDeactivateEnv]
NoCycle ==
    [op |-> "none", metrics |-> NoMetrics, decision |-> "",
     wasActive |-> FALSE, elapsed |-> FALSE, err |-> FALSE,
     procOK |-> TRUE, env |-> NoEnv]
NoTasks == \A u \in Users : placeTasks[u] = 0 /\ restoreTasks[u] = 0
\* the tree as activate found it, while an activate is followed by a deactivate
RoundTripAfter(call) ==
    CASE call = "activate" ->
            IF roundTrip.phase # "activated" /\ NoTasks /\ ~limitsActive
               /\ sharedCgroupPath = "" /\ LimitedDir \notin dirs
            THEN [phase |-> "activated", before |-> BaseDirs(dirs)]
            ELSE [phase |-> "idle", before |-> {}]
      [] call = "deactivate" ->
            IF roundTrip.phase = "activated"
            THEN [roundTrip EXCEPT !.phase = "deactivated"]
            ELSE [phase |-> "idle", before |-> {}]
      [] OTHER -> roundTrip

\* ------------------------------------------------------------- actions
\* the parts of the state that a specification leaves alone
QuotaIdle == quota = <<>> /\ quotaResult = "none"
ScanIdle ==
    /\ procOwner = <<>> /\ scanUid = 0 /\ scanPid = 0 /\ scanPc = "idle"
    /\ written = {}
ReloadIdle ==
    /\ cyclePos = 0 /\ cache = {} /\ pendingReload = FALSE
    /\ fileChanged = FALSE /\ sighupTasks = 0 /\ reloads = 0
    /\ clearedAt = {}
ConfIdle == settings = <<>> /\ loaded = <<>>
\* the goroutines that run handleConfigChange
Handlers == {"watch", "hup"}
\* os.Stat: fileInfo.ModTime(), fileInfo.Size()
FileInfo(f) == [mtime |-> f.mtime, size |-> f.size]

\* a goroutine outside handleConfigChange; ret is how its last call returned
IdleHandler(ret) ==
    [pc |-> "idle", info |-> [mtime |-> 0, size |-> 0],
     newConfig |-> DefaultConfig, ret |-> ret]

WatchIdle ==
    /\ confFile = [mtime |-> 0, size |-> 1, pct |-> DefaultConfig.CPUThreshold]
    /\ lastApplied = FileInfo(confFile)
    /\ currentConfig = DefaultConfig
    /\ handler = [h \in Handlers |-> IdleHandler("none")]
    /\ appliedInfos = <<>>
    /\ wPending = FALSE
    /\ events = 0
    /\ hupTasks = 0
    /\ hups = 0
DebounceIdle ==
    /\ clock = 0 /\ timerAt = {} /\ openedAt = 0 /\ windows = 0
    /\ attempts = 0
\* the process runs: no signal yet, no exit status
NoExit == -1
DownIdle == ctxDone = FALSE /\ exitCode = NoExit
PrepIdle ==
    /\ cgroupV2 = TRUE
    /\ rootControllers = {"cpuset", "cpu"}
    /\ rootSubtree = {"cpuset", "cpu"}
    /\ baseExists = TRUE
    /\ baseSubtree = {"cpuset", "cpu"}
    /\ prepPc = "done"
    /\ prepErr = ""
\* the keys of the metrics cache that are followed
CacheKeys == {"total_cores", "total_cpu_usage"}
\* no setInCache for the key since the last ClearCache
NotStored == [at |-> -1, val |-> 0]
\* no call of getFromCache has just returned
NoLookup == [key |-> "", ttl |-> 0, val |-> 0, valid |-> FALSE]
CacheIdle ==
    /\ cacheClock = 0 /\ cacheTicks = 0
    /\ cacheValues = <<>> /\ cacheTimestamps = <<>>
    /\ fillers = 0 /\ cleanupTasks = 0
    /\ stored = [k \in CacheKeys |-> NotStored]
    /\ lookup = NoLookup
\* LogLevel: DEBUG, INFO, WARN, ERROR as iota numbers them
LevelDEBUG == 0
LevelINFO == 1
LevelWARN == 2
LevelERROR == 3
\* /var/log/cpu-manager.log, the file of main's first InitLogger
DefaultLogFile == "/var/log/cpu-manager.log"
\* the goroutines that log
Loggers == {"main", "watch"}
\* the goroutines that call GetStatus
Readers == {"status1", "status2"}
LogIdle ==
    /\ onceDone = TRUE /\ logLevel = LevelINFO /\ logSink = DefaultLogFile
    /\ logPc = "running"
    /\ want = [level |-> "INFO", file |-> DefaultLogFile]
    /\ canOpen = {DefaultLogFile}
    /\ logSize = 0 /\ logMu = "free"
    /\ logCall = [g \in Loggers |-> "idle"]
    /\ logReloads = 0
CalmIdle == calm = FALSE
StatusIdle ==
    /\ rwReaders = 0
    /\ rwWriter = "none"
    /\ statusPc = [r \in Readers |-> "idle"]
    /\ lockPc = "idle"
    /\ statusCalls = 0
    /\ lockCalls = 0
StartIdle ==
    /\ isRunning = FALSE
    /\ stopChan = "open"
    /\ calls = <<>>
    /\ loops = [started |-> 0, running |-> 0]
    /\ panicked = FALSE
SyncIdle == StatusIdle /\ StartIdle
RestIdle == DownIdle /\ PrepIdle /\ CacheIdle /\ LogIdle /\ CalmIdle /\ SyncIdle
ExtIdle == ConfIdle /\ WatchIdle /\ DebounceIdle /\ RestIdle

\* the managers as their constructors leave them on a host without a
\* tracking file and with an empty <cgroup_root>/<base>
InitMain ==
    /\ now = 0
    /\ mainPc = "start"
    /\ limitsActive = FALSE
    /\ limitsAppliedTime = ZeroTime
    /\ activeUsers = {}
    /\ sharedCgroupPath = ""
    /\ dirs = {}
    /\ sharedCpuMax = NoQuota
    /\ createdCgroups = [u \in {} |-> <<>>]
    /\ procCgroup = [u \in Users |-> "none"]
    /\ forced = 0
    /\ placeTasks = [u \in Users |-> 0]
    /\ restoreTasks = [u \in Users |-> 0]
    /\ cyc = NoCycle
    /\ t0 = ZeroTime
    /\ roundTrip = [phase |-> "idle", before |-> {}]
    /\ trackingFile = <<>>

Init ==
    /\ cfg \in {[DefaultConfig EXCEPT !.IgnoreSystemLoad = b,
                                      !.CPUQuotaNormal = q] :
                    b \in BOOLEAN, q \in {QuotaNormalDefault, QuotaNormalBad}}
    /\ totalCores \in CoreCounts
    /\ InitMain
    /\ QuotaIdle /\ ScanIdle /\ ReloadIdle /\ ExtIdle

\* what a call of activateLimits or deactivateLimits leaves behind
Apply(r) ==
    /\ \A u \in r.place : placeTasks[u] < MaxPending
    /\ \A u \in r.restore : restoreTasks[u] < MaxPending
    /\ limitsActive' = r.limitsActive
    /\ limitsAppliedTime' = r.limitsAppliedTime
    /\ activeUsers' = r.activeUsers
    /\ sharedCgroupPath' = r.sharedCgroupPath
    /\ dirs' = r.dirs
    /\ sharedCpuMax' = r.sharedCpuMax
    /\ createdCgroups' = r.created
    /\ trackingFile' = r.file
    /\ placeTasks' = [u \in Users |->
                        placeTasks[u] + IF u \in r.place THEN 1 ELSE 0]
    /\ restoreTasks' = [u \in Users |->
                          restoreTasks[u] + IF u \in r.restore THEN 1 ELSE 0]
    /\ UNCHANGED procCgroup

\* RunControlCycle at time t; procOK: /proc can be read in this cycle
RunControlCycle(t) ==
    \E procOK \in BOOLEAN :
      \E m \in IF procOK THEN Snapshots ELSE UnreadableSnapshots :
        \E env \in DecisionEnvs(makeDecision(m, t), m) :
          LET decision == makeDecision(m, t)
              r == executeDecision(decision, m, t, env)
          IN  /\ Apply(r)
              /\ cyc' = [op |-> "cycle", metrics |-> m, decision |-> decision,
                         wasActive |-> limitsActive,
                         elapsed |-> ~MinTimePending(t), err |-> r.err,
                         procOK |-> procOK, env |-> env]
              /\ t0' = IF ~limitsActive /\ r.limitsActive THEN t ELSE t0
              /\ roundTrip' = RoundTripAfter(
                     CASE decision = DecisionActivate -> "activate"
                       [] decision = DecisionDeactivate -> "deactivate"
                       [] OTHER -> "maintain")

\* main: the immediate first cycle
InitialCycle ==
    /\ mainPc = "start"
    /\ mainPc' = "loop"
    /\ RunControlCycle(now)
    /\ UNCHANGED <<cfg, totalCores, now, forced>>
    /\ UNCHANGED <<quotaVars, scanVars, reloadVars, extVars>>

\* main: case <-ticker.C
TickerCycle ==
    /\ mainPc = "loop"
    /\ now < MaxTicks * cfg.PollingInterval
    /\ now' = now + cfg.PollingInterval
    /\ RunControlCycle(now')
    /\ UNCHANGED <<cfg, totalCores, mainPc, forced>>
    /\ UNCHANGED <<quotaVars, scanVars, reloadVars, extVars>>

ForceActivateLimits ==
    /\ forced < MaxForced
    /\ forced' = forced + 1
    /\ \E m \in Snapshots : \E e \in ActivateEnvs(m) :
        LET r == activateLimits(m, now, e)
        IN  /\ Apply(r)
            /\ cyc' = [NoCycle EXCEPT !.op = "forceActivate",
                                      !.wasActive = limitsActive,
                                      !.err = r.err]
    /\ roundTrip' = RoundTripAfter("activate")
    /\ UNCHANGED <<cfg, totalCores, now, mainPc, t0>>
    /\ UNCHANGED <<quotaVars, scanVars, reloadVars, extVars>>

ForceDeactivateLimits ==
    /\ forced < MaxForced
    /\ forced' = forced + 1
    /\ \E e \in DeactivateEnvs :
        LET r == deactivateLimits(e)
        IN  /\ Apply(r)
            /\ cyc' = [NoCycle EXCEPT !.op = "forceDeactivate",
                                      !.wasActive = limitsActive,
                                      !.err = r.err]
    /\ roundTrip' = RoundTripAfter("deactivate")
    /\ t0' = ZeroTime
    /\ UNCHANGED <<cfg, totalCores, now, mainPc>>
    /\ UNCHANGED <<quotaVars, scanVars, reloadVars, extVars>>

\* the goroutine started by activateLimits for a newly limited UID
PlacementTask(uid) ==
    /\ placeTasks[uid] > 0
    /\ placeTasks' = [placeTasks EXCEPT ![uid] = @ - 1]
    /\ \E hasProcs \in BOOLEAN :
        LET mv == MoveAllUserProcessesToSharedCgroup(
                      dirs, procCgroup, uid, sharedCgroupPath, hasProcs)
            fs == ApplyCPUWeight([dirs |-> mv.dirs, created |-> createdCgroups,
                                  file |-> trackingFile], uid)
        IN  /\ dirs' = fs.dirs
            /\ createdCgroups' = fs.created
            /\ trackingFile' = fs.file
            /\ procCgroup' = mv.procs
    /\ cyc' = NoCycle
    /\ UNCHANGED <<cfg, totalCores, now, mainPc, stateVars, sharedCpuMax,
                   forced, restoreTasks, t0, roundTrip>>
    /\ UNCHANGED <<quotaVars, scanVars, reloadVars, extVars>>

\* the goroutine started by ApplyCPULimit
RestoreTask(uid) ==
    /\ restoreTasks[uid] > 0
    /\ restoreTasks' = [restoreTasks EXCEPT ![uid] = @ - 1]
    /\ \E hasProcs \in BOOLEAN :
        procCgroup' = MoveAllUserProcesses(dirs, createdCgroups, procCgroup,
                                           uid, hasProcs)
    /\ cyc' = NoCycle
    /\ UNCHANGED <<cfg, totalCores, now, mainPc, stateVars, dirs, sharedCpuMax,
                   createdCgroups, forced, placeTasks, t0, roundTrip,
                   trackingFile>>
    /\ UNCHANGED <<quotaVars, scanVars, reloadVars, extVars>>

Next ==
    \/ InitialCycle
    \/ TickerCycle
    \/ \E uid \in Users : PlacementTask(uid)
    \/ \E uid \in Users : RestoreTask(uid)

Spec == Init /\ [][Next]_vars

\* the same with the exported Force* entry points, which main never calls
NextForce ==
    \/ InitialCycle
    \/ TickerCycle
    \/ ForceActivateLimits
    \/ ForceDeactivateLimits
    \/ \E uid \in Users : PlacementTask(uid)
    \/ \E uid \in Users : RestoreTask(uid)

\* the exported entry points are explored under the default CPUQuotaNormal
InitForce == Init /\ cfg.CPUQuotaNormal = QuotaNormalDefault

SpecForce == InitForce /\ [][NextForce]_vars

\* ------------------------------------------------- the placement scan
\* MoveAllUserProcessesToSharedCgroup, one PID at a time: the UID of the
\* process is read from /proc/<pid>/status, then the PID is written to
\* cgroup.procs, while processes exit and their PIDs are given out again.

\* PIDs of the host
MaxPids == 2
PIDs == 1..MaxPids
\* UIDs below SystemUIDMin that own processes
SystemUIDs == {0, 999}
AllUIDs == Users \cup SystemUIDs
\* the owner of a PID is {uid}, or {} when no process has the PID
Owners == {{}} \cup {{u} : u \in AllUIDs}

\* Collector.isValidUserUID
isValidUserUID(uid) == uid >= cfg.SystemUIDMin /\ uid <= cfg.SystemUIDMax

\* Collector.GetActiveUsers over the processes of the host
GetActiveUsers(owner) ==
    {u \in AllUIDs : isValidUserUID(u) /\ \E pid \in PIDs : owner[pid] = {u}}

\* the managers at rest under the default configuration
MainIdle ==
    /\ cfg = DefaultConfig
    /\ totalCores = CHOOSE c \in CoreCounts : c > cfg.MinSystemCores
    /\ InitMain

InitScan ==
    /\ MainIdle /\ QuotaIdle /\ ReloadIdle /\ ExtIdle
    /\ procOwner \in [PIDs -> Owners]
    /\ scanUid = 0 /\ scanPid = 0 /\ scanPc = "idle"
    /\ written = {}

\* the loop moves on to the next entry of /proc
NextEntry(pid) == IF pid = MaxPids THEN "done" ELSE "check"

\* activateLimits starts the goroutine for a UID of metrics.ActiveUsers
StartScan ==
    /\ scanPc \in {"idle", "done"}
    /\ \E uid \in GetActiveUsers(procOwner) : scanUid' = uid
    /\ scanPid' = 1
    /\ scanPc' = "check"
    /\ UNCHANGED <<procOwner, written>>
    /\ UNCHANGED <<mainVars, quotaVars, reloadVars, extVars>>

\* getUIDFromStatusFile(statusFile); procUID == uid
ScanCheck ==
    /\ scanPc = "check"
    /\ IF procOwner[scanPid] = {scanUid}
       THEN scanPc' = "write" /\ UNCHANGED scanPid
       ELSE /\ scanPc' = NextEntry(scanPid)
            /\ scanPid' = IF scanPid = MaxPids THEN scanPid ELSE scanPid + 1
    /\ UNCHANGED <<procOwner, scanUid, written>>
    /\ UNCHANGED <<mainVars, quotaVars, reloadVars, extVars>>

\* MoveProcessToSharedCgroup: os.WriteFile(cgroupProcsFile, pid); the kernel
\* moves whatever process has the PID now, and fails when there is none
ScanWrite ==
    /\ scanPc = "write"
    /\ written' = written \cup procOwner[scanPid]
    /\ scanPc' = NextEntry(scanPid)
    /\ scanPid' = IF scanPid = MaxPids THEN scanPid ELSE scanPid + 1
    /\ UNCHANGED <<procOwner, scanUid>>
    /\ UNCHANGED <<mainVars, quotaVars, reloadVars, extVars>>

\* a process exits
ProcExit(pid) ==
    /\ procOwner[pid] # {}
    /\ procOwner' = [procOwner EXCEPT ![pid] = {}]
    /\ UNCHANGED <<scanUid, scanPid, scanPc, written>>
    /\ UNCHANGED <<mainVars, quotaVars, reloadVars, extVars>>

\* a new process of uid gets a free PID
ProcSpawn(pid, uid) ==
    /\ procOwner[pid] = {}
    /\ procOwner' = [procOwner EXCEPT ![pid] = {uid}]
    /\ UNCHANGED <<scanUid, scanPid, scanPc, written>>
    /\ UNCHANGED <<mainVars, quotaVars, reloadVars, extVars>>

NextScan ==
    \/ StartScan
    \/ ScanCheck
    \/ ScanWrite
    \/ \E pid \in PIDs : ProcExit(pid)
    \/ \E pid \in PIDs, uid \in AllUIDs : ProcSpawn(pid, uid)

SpecScan == InitScan /\ [][NextScan]_vars

\* ------------------------------------------------- the quota validator
\* isValidCPUQuotaFormat applied to the strings over a small alphabet.

\* length of the strings explored
MaxQuotaLen == 5
\* characters of the strings explored
QuotaAlphabet == {"m", "a", "x", " ", "0", "1", "-"}
QuotaStrings == UNION {[1..n -> QuotaAlphabet] : n \in 0..MaxQuotaLen}

InitQuota ==
    /\ MainIdle /\ ScanIdle /\ ReloadIdle /\ ExtIdle
    /\ quota \in QuotaStrings
    /\ quotaResult = "none"

\* ApplyCPULimit / ApplySharedCPULimit: if !isValidCPUQuotaFormat(quota)
ValidateQuota ==
    /\ quotaResult = "none"
    /\ quotaResult' = IF isValidCPUQuotaFormat(quota) THEN "accepted"
                      ELSE "rejected"
    /\ UNCHANGED quota
    /\ UNCHANGED <<mainVars, scanVars, reloadVars, extVars>>

NextQuota == ValidateQuota

SpecQuota == InitQuota /\ [][NextQuota]_vars

\* ------------------------------------------------------------- startup
\* main builds the cgroup manager, which reads the tracking file left by an
\* earlier run, and then the state manager.

\* lines of the tracking file found at startup
MaxLines == 2
\* the cgroups of the users that an earlier run may have left behind
UserDirs == {<<k, u>> : k \in {"limited", "base"}, u \in Users}
\* the lines "<uid>:<path>" an earlier run may have written
TrackingLines == {<<d[2], d>> : d \in UserDirs}
\* files of up to MaxLines lines, no line twice
TrackingFiles ==
    UNION {{f \in [1..n -> TrackingLines] :
               \A i, j \in 1..n : i # j => f[i] # f[j]} : n \in 0..MaxLines}
\* the trees an earlier run may have left: limited/ exists with its children
LeftoverTrees ==
    {IF \E d \in D : d[1] = "limited" THEN D \cup {LimitedDir} ELSE D :
        D \in SUBSET UserDirs}

\* loadExistingCgroups: createdCgroups gets the entries whose directory
\* exists, a later line of a UID replacing an earlier one; the file is only
\* read
loadExistingCgroups(file, d) ==
    LET kept == {i \in DOMAIN file : file[i][2] \in d}
        uids == {file[i][1] : i \in kept}
        last(u) == CHOOSE i \in kept :
                       /\ file[i][1] = u
                       /\ \A j \in kept : file[j][1] = u => j <= i
    IN  [u \in uids |-> file[last(u)][2]]

InitStart ==
    /\ cfg = DefaultConfig
    /\ totalCores = CHOOSE c \in CoreCounts : c > cfg.MinSystemCores
    /\ now = 0
    /\ mainPc = "boot"
    /\ limitsActive = FALSE
    /\ limitsAppliedTime = ZeroTime
    /\ activeUsers = {}
    /\ sharedCgroupPath = ""
    /\ dirs \in LeftoverTrees
    /\ sharedCpuMax = NoQuota
    /\ createdCgroups = [u \in {} |-> <<>>]
    /\ procCgroup = [u \in Users |-> "none"]
    /\ forced = 0
    /\ placeTasks = [u \in Users |-> 0]
    /\ restoreTasks = [u \in Users |-> 0]
    /\ cyc = NoCycle
    /\ t0 = ZeroTime
    /\ roundTrip = [phase |-> "idle", before |-> {}]
    /\ trackingFile \in TrackingFiles
    /\ QuotaIdle /\ ScanIdle /\ ReloadIdle /\ ExtIdle

\* cgroup.NewManager
NewCgroupManager ==
    /\ mainPc = "boot"
    /\ mainPc' = "cgroups"
    /\ createdCgroups' = loadExistingCgroups(trackingFile, dirs)
    /\ UNCHANGED <<cfg, totalCores, now, stateVars, dirs, sharedCpuMax,
                   procCgroup, forced, taskVars, cyc, t0, roundTrip,
                   trackingFile>>
    /\ UNCHANGED <<quotaVars, scanVars, reloadVars, extVars>>

\* state.NewManager
NewStateManager ==
    /\ mainPc = "cgroups"
    /\ mainPc' = "start"
    /\ limitsActive' = FALSE
    /\ limitsAppliedTime' = ZeroTime
    /\ activeUsers' = {}
    /\ sharedCgroupPath' = ""
    /\ UNCHANGED <<cfg, totalCores, now, fsVars, forced, taskVars, cyc, t0,
                   roundTrip, trackingFile>>
    /\ UNCHANGED <<quotaVars, scanVars, reloadVars, extVars>>

NextStart ==
    \/ NewCgroupManager
    \/ NewStateManager

SpecStart == InitStart /\ [][NextStart]_vars

\* ------------------------------------------------------------- reload
\* The control loop step by step (the getters of collectSystemMetrics, then
\* the decision and its execution), next to the watcher goroutine and the
\* goroutines started for SIGHUP, which apply a new configuration through
\* Reloader.OnConfigChange. What the decision does to the managers is in
\* RunControlCycle above and is left out here.

\* writes of the configuration file explored
MaxReloads == 2
\* the cache keys of the getters, in the order collectSystemMetrics calls them
CollectKeys ==
    <<"total_cores", "total_cpu_usage", "total_user_cpu_usage",
      "memory_usage", "system_under_load", "active_users">>
\* position of the loop after the last getter: makeDecision, executeDecision
ExecutePos == Len(CollectKeys) + 1
\* the keys a getter fills when it finds its own key missing:
\* GetTotalUserCPUUsage calls GetActiveUsers, and IsSystemUnderLoad calls
\* GetTotalCores through getLoadAverage
KeysSetBy(key) ==
    CASE key = "total_user_cpu_usage" -> {key, "active_users"}
      [] key = "system_under_load" -> {key, "total_cores"}
      [] OTHER -> {key}
\* the keys whose TTL outlasts a polling interval: total_cores is kept for
\* 3600 s, system_under_load for 10 s, the others for MetricsCacheTTL
LongLivedKeys ==
    {"total_cores"} \cup
    (IF cfg.MetricsCacheTTL >= cfg.PollingInterval
     THEN {CollectKeys[i] : i \in DOMAIN CollectKeys} \ {"system_under_load"}
     ELSE {})

InitReload ==
    /\ MainIdle /\ QuotaIdle /\ ScanIdle /\ ExtIdle
    /\ ReloadIdle

\* main: case <-ticker.C, RunControlCycle starts
TickerFires ==
    /\ cyclePos = 0
    /\ cyclePos' = 1
    /\ cache' = cache \cap LongLivedKeys
    /\ UNCHANGED <<pendingReload, fileChanged, sighupTasks, reloads, clearedAt>>
    /\ UNCHANGED <<mainVars, quotaVars, scanVars, extVars>>

\* collectSystemMetrics: the next getter, getFromCache then setInCache
CollectStep ==
    /\ cyclePos \in DOMAIN CollectKeys
    /\ cache' = IF CollectKeys[cyclePos] \in cache THEN cache
                ELSE cache \cup KeysSetBy(CollectKeys[cyclePos])
    /\ cyclePos' = cyclePos + 1
    /\ UNCHANGED <<pendingReload, fileChanged, sighupTasks, reloads, clearedAt>>
    /\ UNCHANGED <<mainVars, quotaVars, scanVars, extVars>>

\* RunControlCycle: makeDecision, executeDecision, return
CycleEnds ==
    /\ cyclePos = ExecutePos
    /\ cyclePos' = 0
    /\ UNCHANGED <<cache, pendingReload, fileChanged, sighupTasks, reloads,
                   clearedAt>>
    /\ UNCHANGED <<mainVars, quotaVars, scanVars, extVars>>

\* handleConfigChange: nothing happens when the file has the modification
\* time and size of the last applied one, or does not load and validate;
\* otherwise Reloader.OnConfigChange runs, which logs and clears the
\* collector's cache
handleConfigChange(valid) ==
    IF fileChanged /\ valid
    THEN /\ cache' = {}
         /\ clearedAt' = clearedAt \cup {cyclePos}
         /\ fileChanged' = FALSE
    ELSE UNCHANGED <<cache, clearedAt, fileChanged>>

\* watchLoop: case event := <-w.watcher.Events, for a write of the file
WatchEvent ==
    /\ reloads < MaxReloads
    /\ reloads' = reloads + 1
    /\ fileChanged' = TRUE
    /\ pendingReload' = TRUE
    /\ UNCHANGED <<cyclePos, cache, sighupTasks, clearedAt>>
    /\ UNCHANGED <<mainVars, quotaVars, scanVars, extVars>>

\* watchLoop: case <-debounceTimer.C
DebounceTimer ==
    /\ pendingReload
    /\ pendingReload' = FALSE
    /\ \E valid \in BOOLEAN : handleConfigChange(valid)
    /\ UNCHANGED <<cyclePos, sighupTasks, reloads>>
    /\ UNCHANGED <<mainVars, quotaVars, scanVars, extVars>>

\* signal goroutine: case syscall.SIGHUP, go func() { ... }
Sighup ==
    /\ sighupTasks < MaxPending
    /\ sighupTasks' = sighupTasks + 1
    /\ UNCHANGED <<cyclePos, cache, pendingReload, fileChanged, reloads,
                   clearedAt>>
    /\ UNCHANGED <<mainVars, quotaVars, scanVars, extVars>>

\* the goroutine started for SIGHUP: configWatcher.HandleConfigChange()
SighupTask ==
    /\ sighupTasks > 0
    /\ sighupTasks' = sighupTasks - 1
    /\ \E valid \in BOOLEAN : handleConfigChange(valid)
    /\ UNCHANGED <<cyclePos, pendingReload, reloads>>
    /\ UNCHANGED <<mainVars, quotaVars, scanVars, extVars>>

NextReload ==
    \/ TickerFires
    \/ CollectStep
    \/ CycleEnds
    \/ WatchEvent
    \/ DebounceTimer
    \/ Sighup
    \/ SighupTask

SpecReload == InitReload /\ [][NextReload]_vars

\* ----------------------------------------------------- LoadAndValidate
\* LoadAndValidate applied to the settings a configuration file and the
\* environment may carry: DefaultConfig, then setConfigField for every
\* key, then validateConfig.

\* values of CPU_QUOTA_LIMITED explored
QuotaSettings ==
    { <<"5", " ", "1">>, <<"m", "a", "x", " ", "1">>, <<"-", "1", " ", "1">>,
      <<"1", " ", "0">>, <<"1", " ", " ", "1">>, <<"1">>, <<"x", " ", "1">> }
\* values of LOG_LEVEL explored
LogLevelSettings == {"INFO", "warn", "TRACE"}
\* the settings explored, around the limits validateConfig tests
Settings ==
    [ CPU_THRESHOLD         : {0, 1, 41, 100, 101},
      CPU_RELEASE_THRESHOLD : {0, 1, 41, 100},
      POLLING_INTERVAL      : {4, 5},
      SYSTEM_UID_MIN        : {-1, 0, 1000},
      SYSTEM_UID_MAX        : {0, 999},
      LOG_LEVEL             : LogLevelSettings,
      CPU_QUOTA_LIMITED     : QuotaSettings ]

\* strings.ToUpper on the log levels explored
ToUpper(level) ==
    CASE level = "warn" -> "WARN"
      [] OTHER -> level

\* loadFromFile: setConfigField for every line of the file
loadFromFile(c, f) ==
    [c EXCEPT !.CPUThreshold = f.CPU_THRESHOLD,
              !.CPUReleaseThreshold = f.CPU_RELEASE_THRESHOLD,
              !.PollingInterval = f.POLLING_INTERVAL,
              !.SystemUIDMin = f.SYSTEM_UID_MIN,
              !.SystemUIDMax = f.SYSTEM_UID_MAX,
              !.LogLevel = ToUpper(f.LOG_LEVEL),
              !.CPUQuotaLimited = f.CPU_QUOTA_LIMITED]

\* LoadAndValidate: the configuration, or the error of validateConfig
LoadAndValidate(f) ==
    LET c == loadFromFile(DefaultConfig, f)
    IN  IF validateConfig(c) THEN [err |-> FALSE, cfg |-> c]
        ELSE [err |-> TRUE, cfg |-> DefaultConfig]

NotLoaded == <<>>

InitConfig ==
    /\ MainIdle /\ QuotaIdle /\ ScanIdle /\ ReloadIdle /\ WatchIdle
    /\ DebounceIdle /\ RestIdle
    /\ settings \in Settings
    /\ loaded = NotLoaded

\* main, or handleConfigChange: config.LoadAndValidate(path)
LoadConfig ==
    /\ loaded = NotLoaded
    /\ loaded' = LoadAndValidate(settings)
    /\ UNCHANGED settings
    /\ UNCHANGED <<mainVars, quotaVars, scanVars, reloadVars, watchVars,
                   debounceVars, restVars>>

NextConfig == LoadConfig

SpecConfig == InitConfig /\ [][NextConfig]_vars

\* ----------------------------------------------------- config/watcher.go
\* The watcher step by step: the watch loop with its debounce flag, the
\* goroutines started for SIGHUP, and handleConfigChange as the sequence
\* of its calls (os.Stat, the comparison under the read lock,
\* LoadAndValidate, Reloader.OnConfigChange, the update under the write
\* lock), run by the watch loop and by a SIGHUP goroutine side by side.

\* SIGHUPs explored
MaxSighups == 1
\* values of CPU_THRESHOLD a rewritten file carries: one below the release
\* threshold, which validateConfig rejects, and one between the thresholds
FilePcts == {DefaultConfig.CPUReleaseThreshold - 10, 50}
\* sizes of the rewritten file
FileSizes == {1, 2}

\* the keys of a file that sets CPU_THRESHOLD and leaves the rest at the
\* values of DefaultConfig
FileSettings(pct) ==
    [ CPU_THRESHOLD         |-> pct,
      CPU_RELEASE_THRESHOLD |-> DefaultConfig.CPUReleaseThreshold,
      POLLING_INTERVAL      |-> DefaultConfig.PollingInterval,
      SYSTEM_UID_MIN        |-> DefaultConfig.SystemUIDMin,
      SYSTEM_UID_MAX        |-> DefaultConfig.SystemUIDMax,
      LOG_LEVEL             |-> DefaultConfig.LogLevel,
      CPU_QUOTA_LIMITED     |-> DefaultConfig.CPUQuotaLimited ]

\* main after NewWatcher and Start, in its loop
InitWatch ==
    /\ cfg = DefaultConfig
    /\ totalCores = CHOOSE c \in CoreCounts : c > cfg.MinSystemCores
    /\ InitMain
    /\ QuotaIdle /\ ScanIdle /\ ReloadIdle /\ ConfIdle
    /\ WatchIdle /\ DebounceIdle /\ RestIdle

\* the configuration file is rewritten; fsnotify queues a notification
WriteConfigFile ==
    /\ confFile.mtime < MaxReloads
    /\ \E size \in FileSizes, pct \in FilePcts :
         confFile' = [mtime |-> confFile.mtime + 1, size |-> size, pct |-> pct]
    /\ events' = events + 1
    /\ UNCHANGED <<lastApplied, currentConfig, handler, appliedInfos, wPending,
                   hupTasks, hups>>
    /\ UNCHANGED watchRest

\* watchLoop: case event := <-w.watcher.Events
WatchLoopEvent ==
    /\ events > 0
    /\ handler["watch"].pc = "idle"
    /\ events' = events - 1
    /\ wPending' = TRUE
    /\ UNCHANGED <<confFile, lastApplied, currentConfig, handler, appliedInfos,
                   hupTasks, hups>>
    /\ UNCHANGED watchRest

\* watchLoop: case <-debounceTimer.C, w.handleConfigChange() is entered
WatchLoopTimer ==
    /\ wPending
    /\ handler["watch"].pc = "idle"
    /\ wPending' = FALSE
    /\ handler' = [handler EXCEPT !["watch"].pc = "stat"]
    /\ UNCHANGED <<confFile, lastApplied, currentConfig, appliedInfos, events,
                   hupTasks, hups>>
    /\ UNCHANGED watchRest

\* signal goroutine: case syscall.SIGHUP with configWatcher != nil
ReceiveSighup ==
    /\ hups < MaxSighups
    /\ hups' = hups + 1
    /\ hupTasks' = hupTasks + 1
    /\ UNCHANGED <<confFile, lastApplied, currentConfig, handler, appliedInfos,
                   wPending, events>>
    /\ UNCHANGED watchRest

\* the goroutine of a SIGHUP after its 100 ms: HandleConfigChange()
HupGoroutine ==
    /\ hupTasks > 0
    /\ handler["hup"].pc = "idle"
    /\ hupTasks' = hupTasks - 1
    /\ handler' = [handler EXCEPT !["hup"].pc = "stat"]
    /\ UNCHANGED <<confFile, lastApplied, currentConfig, appliedInfos, wPending,
                   events, hups>>
    /\ UNCHANGED watchRest

\* handleConfigChange: fileInfo, err := os.Stat(w.configPath)
StatConfigFile(h) ==
    /\ handler[h].pc = "stat"
    /\ handler' = [handler EXCEPT ![h].pc = "compare",
                                  ![h].info = FileInfo(confFile)]
    /\ UNCHANGED <<confFile, lastApplied, currentConfig, appliedInfos, wPending,
                   events, hupTasks, hups>>
    /\ UNCHANGED watchRest

\* handleConfigChange: if sameModTime && sameSize { return }
CompareStat(h) ==
    /\ handler[h].pc = "compare"
    /\ handler' =
         [handler EXCEPT ![h] =
            IF /\ handler[h].info.mtime = lastApplied.mtime
               /\ handler[h].info.size = lastApplied.size
            THEN IdleHandler("unchanged")
            ELSE [handler[h] EXCEPT !.pc = "load"]]
    /\ UNCHANGED <<confFile, lastApplied, currentConfig, appliedInfos, wPending,
                   events, hupTasks, hups>>
    /\ UNCHANGED watchRest

\* handleConfigChange: newConfig, err := LoadAndValidate(w.configPath)
LoadNewConfig(h) ==
    /\ handler[h].pc = "load"
    /\ LET r == LoadAndValidate(FileSettings(confFile.pct))
       IN  handler' =
             [handler EXCEPT ![h] =
                IF r.err THEN IdleHandler("invalid")
                ELSE [handler[h] EXCEPT !.pc = "apply", !.newConfig = r.cfg]]
    /\ UNCHANGED <<confFile, lastApplied, currentConfig, appliedInfos, wPending,
                   events, hupTasks, hups>>
    /\ UNCHANGED watchRest

\* Reloader.OnConfigChange(newConfig): it logs the new values, clears the
\* cache of the collector and returns nil
OnConfigChange(h) ==
    /\ handler[h].pc = "apply"
    /\ appliedInfos' = Append(appliedInfos, handler[h].info)
    /\ cache' = {}
    /\ handler' = [handler EXCEPT ![h].pc = "update"]
    /\ UNCHANGED <<confFile, lastApplied, currentConfig, wPending, events,
                   hupTasks, hups>>
    /\ UNCHANGED <<cyclePos, pendingReload, fileChanged, sighupTasks, reloads,
                   clearedAt>>
    /\ UNCHANGED <<mainVars, quotaVars, scanVars, confVars, debounceVars,
                   restVars>>

\* handleConfigChange: w.currentConfig, w.lastModTime, w.lastFileSize
UpdateWatcher(h) ==
    /\ handler[h].pc = "update"
    /\ currentConfig' = handler[h].newConfig
    /\ lastApplied' = handler[h].info
    /\ handler' = [handler EXCEPT ![h] = IdleHandler("applied")]
    /\ UNCHANGED <<confFile, appliedInfos, wPending, events, hupTasks, hups>>
    /\ UNCHANGED watchRest

NextWatch ==
    \/ WriteConfigFile
    \/ WatchLoopEvent
    \/ WatchLoopTimer
    \/ ReceiveSighup
    \/ HupGoroutine
    \/ \E h \in Handlers : StatConfigFile(h)
    \/ \E h \in Handlers : CompareStat(h)
    \/ \E h \in Handlers : LoadNewConfig(h)
    \/ \E h \in Handlers : OnConfigChange(h)
    \/ \E h \in Handlers : UpdateWatcher(h)

SpecWatch == InitWatch /\ [][NextWatch]_vars

\* The control loop next to the watcher: one ticker cycle of the state
\* manager, before or after the watch loop has reloaded a rewritten file.

\* main in its loop, the initial cycle having found no active user
InitSwap ==
    /\ cfg = DefaultConfig
    /\ totalCores = CHOOSE c \in CoreCounts : c > cfg.MinSystemCores
    /\ now = 0
    /\ mainPc = "loop"
    /\ limitsActive = FALSE
    /\ limitsAppliedTime = ZeroTime
    /\ activeUsers = {}
    /\ sharedCgroupPath = ""
    /\ dirs = {}
    /\ sharedCpuMax = NoQuota
    /\ createdCgroups = [u \in {} |-> <<>>]
    /\ procCgroup = [u \in Users |-> "none"]
    /\ forced = 0
    /\ placeTasks = [u \in Users |-> 0]
    /\ restoreTasks = [u \in Users |-> 0]
    /\ cyc = [op |-> "cycle",
              metrics |-> [TotalCores |-> totalCores, TotalUserCPUUsage |-> 0,
                           SystemUnderLoad |-> FALSE, ActiveUsers |-> {}],
              decision |-> DecisionMaintain, wasActive |-> FALSE,
              elapsed |-> TRUE, err |-> FALSE, procOK |-> TRUE, env |-> NoEnv]
    /\ t0 = ZeroTime
    /\ roundTrip = [phase |-> "idle", before |-> {}]
    /\ trackingFile = <<>>
    /\ QuotaIdle /\ ScanIdle /\ ReloadIdle /\ ConfIdle
    /\ WatchIdle /\ DebounceIdle /\ RestIdle

\* main: case <-ticker.C, for the first firing of the ticker
FirstTickerCycle == now = 0 /\ TickerCycle

NextSwap ==
    \/ WriteConfigFile
    \/ WatchLoopEvent
    \/ WatchLoopTimer
    \/ StatConfigFile("watch")
    \/ CompareStat("watch")
    \/ LoadNewConfig("watch")
    \/ OnConfigChange("watch")
    \/ UpdateWatcher("watch")
    \/ FirstTickerCycle

SpecSwap == InitSwap /\ [][NextSwap]_vars

\* The watch loop against the clock: the debounce timer is armed by the
\* first notification received while no reload is pending, and
\* handleConfigChange runs inside the loop when the timer is received.

\* seconds of wall clock explored
MaxClock == 5
\* debounceTimer.Reset(2 * time.Second)
DebounceSecs == 2

InitDebounce ==
    /\ MainIdle /\ QuotaIdle /\ ScanIdle /\ ReloadIdle /\ ConfIdle
    /\ WatchIdle
    /\ DebounceIdle /\ RestIdle

\* time passes
ClockTick ==
    /\ clock < MaxClock
    /\ clock' = clock + 1
    /\ UNCHANGED <<timerAt, openedAt, windows, attempts>>
    /\ UNCHANGED <<watchVars, mainVars, quotaVars, scanVars, reloadVars,
                   confVars, restVars>>

ResetTimer_OnEveryEvent(pending, timer, t) ==
    \* debounceTimer.Reset outside "if !pendingReload"
    {t + DebounceSecs}

ResetTimer_OnlyWhilePending(pending, timer, t) ==
    \* "if pendingReload" in place of "if !pendingReload"
    IF pending THEN {t + DebounceSecs} ELSE timer

\* watchLoop, case event: the timer after
\* "if !pendingReload { pendingReload = true; debounceTimer.Reset(...) }"
ResetTimer(pending, timer, t) ==
    IF ~pending THEN {t + DebounceSecs} ELSE timer

\* watchLoop: case event := <-w.watcher.Events, at the time of the clock
ReceiveEvent ==
    /\ events > 0
    /\ events' = events - 1
    /\ wPending' = TRUE
    /\ timerAt' = ResetTimer(wPending, timerAt, clock)
    /\ openedAt' = IF wPending THEN openedAt ELSE clock
    /\ windows' = IF wPending THEN windows ELSE windows + 1
    /\ UNCHANGED <<clock, attempts>>
    /\ UNCHANGED <<confFile, lastApplied, currentConfig, handler,
                   appliedInfos, hupTasks, hups>>
    /\ UNCHANGED <<mainVars, quotaVars, scanVars, reloadVars, confVars,
                   restVars>>

\* handleConfigChange from os.Stat to its return, within the watch loop
RunHandleConfigChange ==
    LET r == LoadAndValidate(FileSettings(confFile.pct))
    IN  IF FileInfo(confFile) = lastApplied \/ r.err
        THEN UNCHANGED <<lastApplied, currentConfig, appliedInfos, cache>>
        ELSE /\ appliedInfos' = Append(appliedInfos, FileInfo(confFile))
             /\ cache' = {}
             /\ currentConfig' = r.cfg
             /\ lastApplied' = FileInfo(confFile)

\* watchLoop: case <-debounceTimer.C, once the timer has expired
ReceiveTimer ==
    /\ timerAt # {}
    /\ \A t \in timerAt : clock >= t
    /\ timerAt' = {}
    /\ IF wPending
       THEN /\ wPending' = FALSE
            /\ attempts' = attempts + 1
            /\ RunHandleConfigChange
       ELSE UNCHANGED <<wPending, attempts, lastApplied, currentConfig,
                        appliedInfos, cache>>
    /\ UNCHANGED <<clock, openedAt, windows>>
    /\ UNCHANGED <<confFile, handler, events, hupTasks, hups>>
    /\ UNCHANGED <<cyclePos, pendingReload, fileChanged, sighupTasks, reloads,
                   clearedAt>>
    /\ UNCHANGED <<mainVars, quotaVars, scanVars, confVars, restVars>>

NextDebounce ==
    \/ ClockTick
    \/ WriteConfigFile
    \/ ReceiveEvent
    \/ ReceiveTimer

SpecDebounce == InitDebounce /\ [][NextDebounce]_vars

\* The watch loop with its scheduling: time passes, and the select of
\* watchLoop takes the timer case once the timer has expired. A notification
\* is received early enough for its debounce period to end within the
\* seconds explored.
ReceiveEventInTime ==
    /\ clock + DebounceSecs <= MaxClock
    /\ ReceiveEvent

NextDebounceLive ==
    \/ ClockTick
    \/ WriteConfigFile
    \/ ReceiveEventInTime
    \/ ReceiveTimer

\* the clock advances
ClockDue == clock < MaxClock /\ clock' = clock + 1
\* the expired timer is received
TimerDue ==
    /\ timerAt # {}
    /\ \A t \in timerAt : clock >= t
    /\ timerAt' = {}

SpecDebounceLive ==
    /\ InitDebounce
    /\ [][NextDebounceLive]_vars
    /\ WF_clock(ClockDue)
    /\ WF_timerAt(TimerDue)

\* ------------------------------------------------------------ shutdown
\* cgroup.Manager.CleanupAll, called with the tree in fs.  It takes m.mu
\* and calls CleanupUserCgroup for every UID of createdCgroups, which takes
\* m.mu again: with a UID in the map the call never returns.  With an empty
\* map it tries to remove the base cgroup (not part of dirs) and removes
\* the tracking file.
CleanupAll(fs) ==
    IF DOMAIN fs.created # {}
    THEN [ret |-> "blocked"] @@ fs
    ELSE [file |-> <<>>, ret |-> "ok"] @@ fs

\* state.Manager.Cleanup after its call of deactivateLimits, if any, has
\* left d: an error ends it before CleanupAll
CleanupAfter(d) ==
    IF d.err THEN [ret |-> "err"] @@ d ELSE CleanupAll(d)

\* state.Manager.Cleanup; e: the outcomes of the calls of deactivateLimits
Cleanup(e) ==
    CleanupAfter(IF limitsActive
                 THEN deactivateLimits(e)
                 ELSE [limitsActive |-> limitsActive,
                       limitsAppliedTime |-> limitsAppliedTime,
                       activeUsers |-> activeUsers,
                       sharedCgroupPath |-> sharedCgroupPath,
                       dirs |-> dirs, sharedCpuMax |-> sharedCpuMax,
                       created |-> createdCgroups, file |-> trackingFile,
                       place |-> {}, restore |-> {}, err |-> FALSE])

\* the signal goroutine of main: SIGINT or SIGTERM cancels the context and
\* starts the goroutine that ends the process after 10 s
ReceiveSigterm ==
    /\ ~ctxDone
    /\ exitCode = NoExit
    /\ ctxDone' = TRUE
    /\ UNCHANGED <<exitCode, mainVars, quotaVars, scanVars, reloadVars,
                   confVars, watchVars, debounceVars, prepVars, cacheVars,
                   logVars, calmVars,
                   syncVars>>

\* main: case <-ctx.Done().  Cleanup returns, main returns and the process
\* ends with status 0, or main stays inside CleanupAll.
MainShutdown ==
    /\ mainPc = "loop"
    /\ ctxDone
    /\ exitCode = NoExit
    /\ \E e \in DeactivateEnvs :
        LET r == Cleanup(e)
        IN  /\ Apply(r)
            /\ cyc' = [NoCycle EXCEPT !.op = "cleanup",
                                      !.wasActive = limitsActive,
                                      !.err = r.ret = "err"]
            /\ mainPc' = IF r.ret = "blocked" THEN "blocked" ELSE "returned"
            /\ exitCode' = IF r.ret = "blocked" THEN NoExit ELSE 0
    /\ roundTrip' = IF limitsActive THEN RoundTripAfter("deactivate")
                    ELSE roundTrip
    /\ t0' = IF limitsActive THEN ZeroTime ELSE t0
    /\ UNCHANGED <<cfg, totalCores, now, forced, ctxDone>>
    /\ UNCHANGED <<quotaVars, scanVars, reloadVars, confVars, watchVars,
                   debounceVars, prepVars, cacheVars,
                   logVars, calmVars,
                   syncVars>>

\* the goroutine started with the signal: os.Exit(1) once 10 s have passed.
\* Cleanup sleeps nowhere, so the timer only expires on a main that cannot
\* go on.
ForcedExit ==
    /\ ctxDone
    /\ mainPc = "blocked"
    /\ exitCode = NoExit
    /\ exitCode' = 1
    /\ UNCHANGED <<ctxDone, mainVars, quotaVars, scanVars, reloadVars,
                   confVars, watchVars, debounceVars, prepVars, cacheVars,
                   logVars, calmVars,
                   syncVars>>

InitShutdown ==
    /\ cfg = DefaultConfig
    /\ totalCores = 4
    /\ InitMain
    /\ QuotaIdle /\ ScanIdle /\ ReloadIdle /\ ExtIdle

\* the goroutines of a process that has not ended.  The select of main
\* takes either case when the context is cancelled and a tick is due.
NextShutdown ==
    \/ exitCode = NoExit /\ InitialCycle
    \/ exitCode = NoExit /\ TickerCycle
    \/ \E uid \in Users : exitCode = NoExit /\ PlacementTask(uid)
    \/ \E uid \in Users : exitCode = NoExit /\ RestoreTask(uid)
    \/ ReceiveSigterm
    \/ MainShutdown
    \/ ForcedExit

SpecShutdown == InitShutdown /\ [][NextShutdown]_vars

\* ------------------------------------------------- verifyCgroupSetup
\* the controllers of the hosts explored, in the order the kernel lists them
Controllers == <<"cpuset", "cpu", "memory">>
ControllerSet == {Controllers[i] : i \in DOMAIN Controllers}
\* the characters of a controller name
Chars(c) ==
    CASE c = "cpuset" -> <<"c", "p", "u", "s", "e", "t">>
      [] c = "cpu" -> <<"c", "p", "u">>
      [] c = "memory" -> <<"m", "e", "m", "o", "r", "y">>

\* what os.ReadFile returns for cgroup.controllers or cgroup.subtree_control
\* of a cgroup with the controllers of S: the names separated by a space and
\* a final newline
RECURSIVE ControllerLine(_, _)
ControllerLine(S, i) ==
    IF i > Len(Controllers) THEN <<>>
    ELSE LET rest == ControllerLine(S, i + 1)
         IN  IF Controllers[i] \in S
             THEN Chars(Controllers[i])
                    \o (IF rest = <<>> THEN <<>> ELSE <<" ">>) \o rest
             ELSE rest
ReadControllers(S) == ControllerLine(S, 1) \o <<"\n">>

\* strings.Contains
Contains(s, substr) ==
    \E i \in 1..(Len(s) + 1) :
        /\ i + Len(substr) - 1 <= Len(s)
        /\ SubSeq(s, i, i + Len(substr) - 1) = substr

\* the kernel's answer to a write of "+c" into the cgroup.subtree_control
\* of a cgroup whose cgroup.controllers lists avail: refused when c is not
\* listed, or (allowed = FALSE) for want of permission or with EBUSY
WriteSubtreeControl(avail, enabled, c, allowed) ==
    IF c \in avail /\ allowed
    THEN [ok |-> TRUE, enabled |-> enabled \cup {c}]
    ELSE [ok |-> FALSE, enabled |-> enabled]

\* Manager.enableCPUControllers on the root cgroup
enableCPUControllers(allowed) ==
    LET w1 == WriteSubtreeControl(rootControllers, rootSubtree, "cpu",
                                  allowed)
        w2 == WriteSubtreeControl(rootControllers, w1.enabled, "cpuset",
                                  allowed)
    IN  IF ~w1.ok THEN [err |-> TRUE, enabled |-> w1.enabled]
        ELSE [err |-> FALSE, enabled |-> w2.enabled]

\* Manager.writeControllerIfMissing on <base>/cgroup.subtree_control; the
\* controllers of <base> are the ones the root has enabled for its children
writeControllerIfMissing(avail, enabled, controller, allowed) ==
    IF Contains(ReadControllers(enabled), Chars(controller))
    THEN [ok |-> TRUE, enabled |-> enabled]
    ELSE WriteSubtreeControl(avail, enabled, controller, allowed)

prepRest == <<mainVars, quotaVars, scanVars, reloadVars, confVars, watchVars,
              debounceVars, downVars, cacheVars, logVars, calmVars,
                   syncVars>>

\* a cgroup hierarchy as the kernel allows it: a cgroup enables for its
\* children only controllers it has itself
InitPrepare ==
    /\ cgroupV2 \in BOOLEAN
    /\ rootControllers \in SUBSET ControllerSet
    /\ rootSubtree \in SUBSET rootControllers
    /\ baseExists \in BOOLEAN
    /\ baseSubtree \in IF baseExists THEN SUBSET rootSubtree ELSE {{}}
    /\ prepPc = "controllers"
    /\ prepErr = ""
    /\ MainIdle /\ QuotaIdle /\ ScanIdle /\ ReloadIdle
    /\ ConfIdle /\ WatchIdle /\ DebounceIdle /\ DownIdle /\ CacheIdle
    /\ LogIdle /\ CalmIdle /\ SyncIdle

\* verifyCgroupSetup, steps 1 and 2
CheckControllers ==
    /\ prepPc = "controllers"
    /\ IF ~cgroupV2
       THEN prepPc' = "done" /\ prepErr' = "cannot read cgroup.controllers"
       ELSE IF ~Contains(ReadControllers(rootControllers), Chars("cpu"))
       THEN prepPc' = "done" /\ prepErr' = "cpu controller not available"
       ELSE prepPc' = "subtree" /\ prepErr' = ""
    /\ UNCHANGED <<cgroupV2, rootControllers, rootSubtree, baseExists,
                   baseSubtree>>
    /\ UNCHANGED prepRest

\* verifyCgroupSetup, step 3
CheckSubtreeControl ==
    /\ prepPc = "subtree"
    /\ LET controllers == ReadControllers(rootSubtree)
           controllersAvailable ==
               /\ Contains(controllers, Chars("cpu"))
               /\ Contains(controllers, Chars("cpuset"))
       IN  IF controllersAvailable
           THEN /\ prepPc' = "writable" /\ prepErr' = ""
                /\ UNCHANGED rootSubtree
           ELSE \E allowed \in BOOLEAN :
                  LET r == enableCPUControllers(allowed)
                  IN  /\ rootSubtree' = r.enabled
                      /\ IF r.err
                         THEN /\ prepPc' = "done"
                              /\ prepErr' = "failed to enable CPU controllers"
                         ELSE prepPc' = "writable" /\ prepErr' = ""
    /\ UNCHANGED <<cgroupV2, rootControllers, baseExists, baseSubtree>>
    /\ UNCHANGED prepRest

\* verifyCgroupSetup, step 4: only a permission error of the write ends it
CheckWritable ==
    /\ prepPc = "writable"
    /\ \E denied \in BOOLEAN :
        IF denied
        THEN prepPc' = "done" /\ prepErr' = "no write permission to cgroup root"
        ELSE prepPc' = "base" /\ prepErr' = ""
    /\ UNCHANGED <<cgroupV2, rootControllers, rootSubtree, baseExists,
                   baseSubtree>>
    /\ UNCHANGED prepRest

\* verifyCgroupSetup, step 5
CreateBaseCgroup ==
    /\ prepPc = "base"
    /\ prepPc' = "done"
    /\ \E mkdirOK \in BOOLEAN, allowed \in BOOLEAN :
        IF ~baseExists /\ ~mkdirOK
        THEN /\ prepErr' = "failed to create base cgroup"
             /\ UNCHANGED <<baseExists, baseSubtree>>
        ELSE LET w1 == writeControllerIfMissing(rootSubtree, baseSubtree,
                                                "cpu", allowed)
                 w2 == writeControllerIfMissing(rootSubtree, w1.enabled,
                                                "cpuset", allowed)
             IN  /\ baseExists' = TRUE
                 /\ baseSubtree' = IF w1.ok THEN w2.enabled ELSE w1.enabled
                 /\ prepErr' =
                      IF ~w1.ok
                      THEN "failed to enable cpu controller in base cgroup"
                      ELSE IF ~w2.ok
                      THEN "failed to enable cpuset controller in base cgroup"
                      ELSE ""
    /\ UNCHANGED <<cgroupV2, rootControllers, rootSubtree>>
    /\ UNCHANGED prepRest

NextPrepare ==
    \/ CheckControllers
    \/ CheckSubtreeControl
    \/ CheckWritable
    \/ CreateBaseCgroup

SpecPrepare == InitPrepare /\ [][NextPrepare]_vars

\* -------------------------------------------------------- metrics cache
\* advances of the clock explored
MaxCacheTicks == 3
\* setInCache starts cleanupCache when the cache has more entries than this
CleanupLen == 100
\* cleanupCache deletes the entries older than 5 minutes
CleanupAge == 300
\* the TTL GetTotalCores passes to getFromCache
TotalCoresTTL == 3600
\* the TTLs getFromCache is called with
CacheTTLs == {DefaultConfig.MetricsCacheTTL, TotalCoresTTL}
\* the values stored
CacheVals == {1, 2}
\* seconds between two operations on the cache
Advances == {5, DefaultConfig.MetricsCacheTTL, CleanupAge}

\* Collector.getFromCache without the test of the age
getFromCache_NoExpiry(key, ttl) ==
    IF key \notin DOMAIN cacheValues THEN [val |-> 0, valid |-> FALSE]
    ELSE IF key \notin DOMAIN cacheTimestamps
    THEN [val |-> 0, valid |-> FALSE]
    ELSE [val |-> cacheValues[key], valid |-> TRUE]
\* Collector.getFromCache; time.Since(timestamp) is cacheClock - timestamp
getFromCache(key, ttl) ==
    IF key \notin DOMAIN cacheValues THEN [val |-> 0, valid |-> FALSE]
    ELSE IF key \notin DOMAIN cacheTimestamps
    THEN [val |-> 0, valid |-> FALSE]
    ELSE IF cacheClock - cacheTimestamps[key] > ttl
    THEN [val |-> 0, valid |-> FALSE]
    ELSE [val |-> cacheValues[key], valid |-> TRUE]

\* m[key] = value of a Go map
MapSet(m, key, value) ==
    [k \in DOMAIN m \cup {key} |-> IF k = key THEN value ELSE m[k]]
\* delete(m, key) for every key of D
MapDelete(m, D) == [k \in DOMAIN m \ D |-> m[k]]

cacheRest == <<mainVars, quotaVars, scanVars, reloadVars, confVars, watchVars,
               debounceVars, downVars, prepVars, logVars, calmVars,
                   syncVars>>

\* a collector whose cache holds nothing under the keys followed and, on
\* some hosts, CleanupLen entries under other keys, stored at time 0
InitCache ==
    /\ cacheClock = 0 /\ cacheTicks = 0
    /\ cacheValues = <<>> /\ cacheTimestamps = <<>>
    /\ fillers \in {0, CleanupLen}
    /\ cleanupTasks = 0
    /\ stored = [k \in CacheKeys |-> NotStored]
    /\ lookup = NoLookup
    /\ MainIdle /\ QuotaIdle /\ ScanIdle /\ ReloadIdle
    /\ ConfIdle /\ WatchIdle /\ DebounceIdle /\ DownIdle /\ PrepIdle
    /\ LogIdle /\ CalmIdle /\ SyncIdle

CacheClockTick ==
    /\ cacheTicks < MaxCacheTicks
    /\ cacheTicks' = cacheTicks + 1
    /\ \E d \in Advances : cacheClock' = cacheClock + d
    /\ lookup' = NoLookup
    /\ UNCHANGED <<cacheValues, cacheTimestamps, fillers, cleanupTasks, stored>>
    /\ UNCHANGED cacheRest

\* a caller of getFromCache
GetFromCache ==
    /\ \E key \in CacheKeys, ttl \in CacheTTLs :
        LET r == getFromCache(key, ttl)
        IN  lookup' = [key |-> key, ttl |-> ttl, val |-> r.val,
                       valid |-> r.valid]
    /\ UNCHANGED <<cacheClock, cacheTicks, cacheValues, cacheTimestamps,
                   fillers, cleanupTasks, stored>>
    /\ UNCHANGED cacheRest

\* Collector.setInCache
SetInCache ==
    /\ \E key \in CacheKeys, value \in CacheVals :
        /\ cacheValues' = MapSet(cacheValues, key, value)
        /\ cacheTimestamps' = MapSet(cacheTimestamps, key, cacheClock)
        /\ stored' = [stored EXCEPT ![key] = [at |-> cacheClock,
                                              val |-> value]]
    /\ IF fillers + Cardinality(DOMAIN cacheValues') > CleanupLen
       THEN /\ cleanupTasks < MaxPending
            /\ cleanupTasks' = cleanupTasks + 1
       ELSE UNCHANGED cleanupTasks
    /\ lookup' = NoLookup
    /\ UNCHANGED <<cacheClock, cacheTicks, fillers>>
    /\ UNCHANGED cacheRest

\* Collector.cleanupCache, run by the goroutine setInCache started
CleanupCache ==
    /\ cleanupTasks > 0
    /\ cleanupTasks' = cleanupTasks - 1
    /\ LET old == {k \in DOMAIN cacheTimestamps :
                      cacheClock - cacheTimestamps[k] > CleanupAge}
       IN  /\ cacheValues' = MapDelete(cacheValues, old)
           /\ cacheTimestamps' = MapDelete(cacheTimestamps, old)
    /\ fillers' = IF cacheClock > CleanupAge THEN 0 ELSE fillers
    /\ lookup' = NoLookup
    /\ UNCHANGED <<cacheClock, cacheTicks, stored>>
    /\ UNCHANGED cacheRest

\* Collector.ClearCache
ClearCache ==
    /\ cacheValues' = <<>>
    /\ cacheTimestamps' = <<>>
    /\ fillers' = 0
    /\ stored' = [k \in CacheKeys |-> NotStored]
    /\ lookup' = NoLookup
    /\ UNCHANGED <<cacheClock, cacheTicks, cleanupTasks>>
    /\ UNCHANGED cacheRest

NextCache ==
    \/ CacheClockTick
    \/ GetFromCache
    \/ SetInCache
    \/ CleanupCache
    \/ ClearCache

SpecCache == InitCache /\ [][NextCache]_vars

\* ------------------------------------------------- MIN_SYSTEM_CORES
\* values of MIN_SYSTEM_CORES explored
MinCoresSettings == {-1, 0, 1, 2}
\* setConfigField, case "MIN_SYSTEM_CORES", on the parsed value, followed
\* by validateConfig as in LoadAndValidate
LoadMinSystemCores(v) ==
    LET c == [DefaultConfig EXCEPT !.MinSystemCores = v]
    IN  IF validateConfig(c) THEN [err |-> FALSE, cfg |-> c]
        ELSE [err |-> TRUE, cfg |-> DefaultConfig]

\* main with a configuration LoadAndValidate accepted
InitCores ==
    /\ cfg \in {LoadMinSystemCores(v).cfg :
                   v \in {w \in MinCoresSettings : ~LoadMinSystemCores(w).err}}
    /\ totalCores \in CoreCounts
    /\ InitMain
    /\ QuotaIdle /\ ScanIdle /\ ReloadIdle /\ ExtIdle

SpecCores == InitCores /\ [][Next]_vars

\* ---------------------------------------------------- logging/logger.go
\* reloads of LOG_LEVEL explored
MaxLogReloads == 1
\* Logger.maxSize, in messages: the file is rotated once it holds more
MaxSizeInMessages == 2
\* values of LOG_FILE explored
LogFiles == {DefaultLogFile, "/tmp/cpu-manager.log"}

parseLogLevel(level) ==
    CASE level = "DEBUG" -> LevelDEBUG
      [] level = "WARN" -> LevelWARN
      [] level = "ERROR" -> LevelERROR
      [] OTHER -> LevelINFO

\* Logger.shouldLog
shouldLog(level) == level >= logLevel

\* InitLogger: the body runs under once.Do; a file that cannot be opened
\* makes it fall back to stdout
InitLogger(level, filePath) ==
    IF onceDone
    THEN [level |-> logLevel, sink |-> logSink]
    ELSE [level |-> parseLogLevel(level),
          sink |-> IF filePath \in canOpen THEN filePath ELSE "stdout"]

logRest == <<mainVars, quotaVars, scanVars, reloadVars, confVars, watchVars,
             debounceVars, downVars, prepVars, cacheVars, calmVars,
                   syncVars>>

\* main before its first statement, with the configuration file it will
\* load
InitLogging ==
    /\ onceDone = FALSE
    /\ logLevel = LevelINFO
    /\ logSink = "stdout"
    /\ logPc = "start"
    /\ want \in [level : validLogLevels, file : LogFiles]
    /\ canOpen \in SUBSET LogFiles
    /\ logSize = 0
    /\ logMu = "free"
    /\ logCall = [g \in Loggers |-> "idle"]
    /\ logReloads = 0
    /\ MainIdle /\ QuotaIdle /\ ScanIdle /\ ReloadIdle
    /\ ConfIdle /\ WatchIdle /\ DebounceIdle /\ DownIdle /\ PrepIdle
    /\ CacheIdle /\ CalmIdle /\ SyncIdle

\* main: InitLogger("INFO", "/var/log/cpu-manager.log", ...) and its message
\* "Logger initialized"
InitDefaultLogger ==
    /\ logPc = "start"
    /\ logPc' = "loaded"
    /\ LET r == InitLogger("INFO", DefaultLogFile)
       IN  /\ logLevel' = r.level
           /\ logSink' = r.sink
           /\ logSize' = IF r.sink # "stdout" THEN 1 ELSE logSize
    /\ onceDone' = TRUE
    /\ UNCHANGED <<want, canOpen, logMu, logCall, logReloads>>
    /\ UNCHANGED logRest

\* main: InitLogger(cfg.LogLevel, cfg.LogFile, cfg.LogMaxSize) after
\* LoadAndValidate
InitConfiguredLogger ==
    /\ logPc = "loaded"
    /\ logPc' = "running"
    /\ LET r == InitLogger(want.level, want.file)
       IN  /\ logLevel' = r.level
           /\ logSink' = r.sink
    /\ onceDone' = TRUE
    /\ UNCHANGED <<want, canOpen, logSize, logMu, logCall, logReloads>>
    /\ UNCHANGED logRest

\* Reloader.OnConfigChange with a configuration whose LogLevel differs: the
\* branch for the logger only logs a message
ReloadLogLevel ==
    /\ logPc = "running"
    /\ logReloads < MaxLogReloads
    /\ logReloads' = logReloads + 1
    /\ \E l \in validLogLevels \ {want.level} :
        want' = [want EXCEPT !.level = l]
    /\ UNCHANGED <<onceDone, logLevel, logSink, logPc, canOpen, logSize,
                   logMu, logCall>>
    /\ UNCHANGED logRest

\* logInternal up to l.mu.Lock(): a message below the level returns
LogCallStart(g) ==
    /\ logPc # "start"
    /\ logCall[g] = "idle"
    /\ \E level \in {LevelDEBUG, LevelINFO, LevelWARN, LevelERROR} :
        logCall' = [logCall EXCEPT
                      ![g] = IF shouldLog(level) THEN "lock" ELSE "idle"]
    /\ UNCHANGED <<onceDone, logLevel, logSink, logPc, want, canOpen, logSize,
                   logMu, logReloads>>
    /\ UNCHANGED logRest

\* l.mu.Lock() returns
LogLock(g) ==
    /\ logCall[g] = "lock"
    /\ logMu = "free"
    /\ logMu' = g
    /\ logCall' = [logCall EXCEPT ![g] = "write"]
    /\ UNCHANGED <<onceDone, logLevel, logSink, logPc, want, canOpen, logSize,
                   logReloads>>
    /\ UNCHANGED logRest

\* logInternal from Println to its return, with checkAndRotate and
\* rotateLog.  rotateLog ends with l.logInternal(INFO, ...), whose
\* l.mu.Lock() finds the mutex held by the caller itself.
\* elapsed: a second has passed since lastRotation; statOK: l.file.Stat();
\* reopenOK: os.OpenFile of the new file
LogWrite(g) ==
    /\ logCall[g] = "write"
    /\ \E elapsed \in BOOLEAN, statOK \in BOOLEAN, reopenOK \in BOOLEAN :
        LET size == IF logSink = "stdout" THEN logSize
                    ELSE IF logSize > MaxSizeInMessages THEN logSize
                    ELSE logSize + 1
            rotate == /\ logSink # "stdout" /\ elapsed /\ statOK
                      /\ size > MaxSizeInMessages
        IN  IF ~rotate
            THEN /\ logSize' = size
                 /\ logMu' = "free"
                 /\ logCall' = [logCall EXCEPT ![g] = "idle"]
                 /\ UNCHANGED logSink
            ELSE IF ~reopenOK
            THEN /\ logSize' = 0
                 /\ logSink' = "stdout"
                 /\ logMu' = "free"
                 /\ logCall' = [logCall EXCEPT ![g] = "idle"]
            ELSE IF ~shouldLog(LevelINFO)
            THEN /\ logSize' = 0
                 /\ logMu' = "free"
                 /\ logCall' = [logCall EXCEPT ![g] = "idle"]
                 /\ UNCHANGED logSink
            ELSE /\ logSize' = 0
                 /\ logMu' = logMu
                 /\ logCall' = [logCall EXCEPT ![g] = "relock"]
                 /\ UNCHANGED logSink
    /\ UNCHANGED <<onceDone, logLevel, logPc, want, canOpen, logReloads>>
    /\ UNCHANGED logRest

NextLogging ==
    \/ InitDefaultLogger
    \/ InitConfiguredLogger
    \/ ReloadLogLevel
    \/ \E g \in Loggers : LogCallStart(g)
    \/ \E g \in Loggers : LogLock(g)
    \/ \E g \in Loggers : LogWrite(g)

SpecLogging == InitLogging /\ [][NextLogging]_vars

\* ------------------------------------------------------ release liveness
\* The control loop from the moment on from which every snapshot shows the
\* user CPU usage below CPUReleaseThreshold and the system not under load.

\* such a snapshot
LowSnapshot(m) ==
    m.TotalUserCPUUsage < cfg.CPUReleaseThreshold /\ ~m.SystemUnderLoad

InitRelease ==
    /\ cfg \in {[DefaultConfig EXCEPT !.IgnoreSystemLoad = b] : b \in BOOLEAN}
    /\ totalCores = 4
    /\ InitMain
    /\ QuotaIdle /\ ScanIdle /\ ReloadIdle /\ ExtIdle

\* the load goes away while the limits are active; the ticks explored
\* reach past MinActiveTime from here
StartCalm ==
    /\ ~calm
    /\ mainPc = "loop"
    /\ limitsActive
    /\ now + cfg.MinActiveTime <= MaxTicks * cfg.PollingInterval
    /\ calm' = TRUE
    /\ UNCHANGED <<mainVars, quotaVars, scanVars, reloadVars, confVars,
                   watchVars, debounceVars, downVars, prepVars, cacheVars,
                   logVars, syncVars>>

\* main: case <-ticker.C, while the load may still go away within the ticks
\* explored
PreCalmCycle ==
    /\ ~calm
    /\ now + cfg.PollingInterval + cfg.MinActiveTime
         <= MaxTicks * cfg.PollingInterval
    /\ TickerCycle

\* main: case <-ticker.C, with a snapshot of the calm phase
CalmCycle == calm /\ TickerCycle /\ LowSnapshot(cyc'.metrics)

NextRelease ==
    \/ ~calm /\ InitialCycle
    \/ PreCalmCycle
    \/ \E uid \in Users : PlacementTask(uid)
    \/ \E uid \in Users : RestoreTask(uid)
    \/ StartCalm
    \/ CalmCycle

\* the ticker is due: main is in its select and ticker.C delivers the next
\* tick, PollingInterval after the last one
TickerDue ==
    /\ calm /\ limitsActive
    /\ now < MaxTicks * cfg.PollingInterval
    /\ now' = now + cfg.PollingInterval

\* the ticker keeps firing, and main runs the cycle of every tick
SpecRelease == InitRelease /\ [][NextRelease]_vars /\ WF_now(TickerDue)

\* ------------------------------------------------------------ GetStatus
\* Manager.mu is a sync.RWMutex: RLock waits while a Lock is pending or
\* held, and a pending Lock waits until every read lock is released.
\* GetStatus takes the read lock and, still holding it, calls
\* getActiveUsersList, which takes it again; the control cycle takes the
\* write lock in activateLimits for every UID it starts to track.

\* calls of GetStatus explored
MaxStatusCalls == 2
\* m.mu.Lock() calls of the control cycle explored
MaxLockCalls == 2

lockRest == <<quotaVars, scanVars, reloadVars, confVars, watchVars,
              debounceVars, downVars, prepVars, cacheVars, logVars, calmVars,
              startVars>>

InitStatus ==
    /\ MainIdle /\ QuotaIdle /\ ScanIdle /\ ReloadIdle /\ ExtIdle

\* GetStatus: m.mu.RLock()
GetStatusRLock(r) ==
    /\ statusPc[r] = "idle"
    /\ statusCalls < MaxStatusCalls
    /\ rwWriter = "none"
    /\ rwReaders' = rwReaders + 1
    /\ statusPc' = [statusPc EXCEPT ![r] = "locked"]
    /\ UNCHANGED <<rwWriter, lockPc, statusCalls, lockCalls>>
    /\ UNCHANGED <<mainVars, lockRest>>

\* getActiveUsersList, called by GetStatus: m.mu.RLock()
getActiveUsersListRLock(r) ==
    /\ statusPc[r] = "locked"
    /\ rwWriter = "none"
    /\ rwReaders' = rwReaders + 1
    /\ statusPc' = [statusPc EXCEPT ![r] = "nested"]
    /\ UNCHANGED <<rwWriter, lockPc, statusCalls, lockCalls>>
    /\ UNCHANGED <<mainVars, lockRest>>

\* getActiveUsersList: the list is built and the deferred RUnlock runs
getActiveUsersListRUnlock(r) ==
    /\ statusPc[r] = "nested"
    /\ rwReaders' = rwReaders - 1
    /\ statusPc' = [statusPc EXCEPT ![r] = "listed"]
    /\ UNCHANGED <<rwWriter, lockPc, statusCalls, lockCalls>>
    /\ UNCHANGED <<mainVars, lockRest>>

\* GetStatus: the rest of the status is read, the deferred RUnlock runs and
\* the call returns
GetStatusRUnlock(r) ==
    /\ statusPc[r] = "listed"
    /\ rwReaders' = rwReaders - 1
    /\ statusPc' = [statusPc EXCEPT ![r] = "idle"]
    /\ statusCalls' = statusCalls + 1
    /\ UNCHANGED <<rwWriter, lockPc, lockCalls>>
    /\ UNCHANGED <<mainVars, lockRest>>

\* activateLimits: m.mu.Lock() is called; from here on RLock waits
CycleLock ==
    /\ lockPc = "idle"
    /\ lockCalls < MaxLockCalls
    /\ rwWriter = "none"
    /\ rwWriter' = "pending"
    /\ lockPc' = "waiting"
    /\ lockCalls' = lockCalls + 1
    /\ UNCHANGED <<rwReaders, statusPc, statusCalls>>
    /\ UNCHANGED <<mainVars, lockRest>>

\* activateLimits: m.mu.Lock() returns once no read lock is held
CycleLockAcquired ==
    /\ rwWriter = "pending"
    /\ rwReaders = 0
    /\ rwWriter' = "held"
    /\ lockPc' = "locked"
    /\ UNCHANGED <<rwReaders, statusPc, statusCalls, lockCalls>>
    /\ UNCHANGED <<mainVars, lockRest>>

\* activateLimits: m.activeUsers[uid] = true; m.mu.Unlock()
CycleUnlock(uid) ==
    /\ rwWriter = "held"
    /\ activeUsers' = activeUsers \cup {uid}
    /\ rwWriter' = "none"
    /\ lockPc' = "idle"
    /\ UNCHANGED <<rwReaders, statusPc, statusCalls, lockCalls>>
    /\ UNCHANGED <<cfg, totalCores, now, mainPc, limitsActive,
                   limitsAppliedTime, sharedCgroupPath, dirs, sharedCpuMax,
                   createdCgroups, procCgroup, forced, placeTasks,
                   restoreTasks, cyc, t0, roundTrip, trackingFile>>
    /\ UNCHANGED lockRest

NextStatus ==
    \/ \E r \in Readers : GetStatusRLock(r)
    \/ \E r \in Readers : getActiveUsersListRLock(r)
    \/ \E r \in Readers : getActiveUsersListRUnlock(r)
    \/ \E r \in Readers : GetStatusRUnlock(r)
    \/ CycleLock
    \/ CycleLockAcquired
    \/ \E uid \in Users : CycleUnlock(uid)

SpecStatus == InitStatus /\ [][NextStatus]_vars

\* ------------------------------------------------------------ Start and Stop
\* The Watcher is made by NewWatcher with an open stopChan and isRunning
\* false. Start and Stop run under Watcher.mu, so each is one step; the
\* watch loop is a goroutine of its own.

\* Start and Stop calls explored
MaxCalls == 5

startRest == <<mainVars, quotaVars, scanVars, reloadVars, confVars, watchVars,
               debounceVars, downVars, prepVars, cacheVars, logVars, calmVars,
               lockVars>>

InitStartStop ==
    /\ MainIdle /\ QuotaIdle /\ ScanIdle /\ ReloadIdle /\ ExtIdle

\* Watcher.Start: refused while running, otherwise isRunning is set and the
\* watch loop is started
Start ==
    /\ ~panicked
    /\ Len(calls) < MaxCalls
    /\ calls' = Append(calls, "Start")
    /\ IF isRunning
       THEN UNCHANGED <<isRunning, loops>>
       ELSE /\ isRunning' = TRUE
            /\ loops' = [loops EXCEPT !.started = @ + 1]
    /\ UNCHANGED <<stopChan, panicked>>
    /\ UNCHANGED startRest

\* Watcher.Stop: nothing to do when not running; otherwise close(w.stopChan),
\* which panics on a channel that is closed already, and isRunning = false
Stop ==
    /\ ~panicked
    /\ Len(calls) < MaxCalls
    /\ calls' = Append(calls, "Stop")
    /\ IF ~isRunning
       THEN UNCHANGED <<isRunning, stopChan, panicked>>
       ELSE IF stopChan = "closed"
            THEN panicked' = TRUE /\ UNCHANGED <<isRunning, stopChan>>
            ELSE /\ stopChan' = "closed"
                 /\ isRunning' = FALSE
                 /\ UNCHANGED panicked
    /\ UNCHANGED loops
    /\ UNCHANGED startRest

\* go w.watchLoop(): the goroutine gets to run
WatchLoopBegin ==
    /\ ~panicked
    /\ loops.started > 0
    /\ loops' = [started |-> loops.started - 1, running |-> loops.running + 1]
    /\ UNCHANGED <<isRunning, stopChan, calls, panicked>>
    /\ UNCHANGED startRest

\* watchLoop: case <-w.stopChan, which is ready once the channel is closed
WatchLoopReturn ==
    /\ ~panicked
    /\ loops.running > 0
    /\ stopChan = "closed"
    /\ loops' = [loops EXCEPT !.running = @ - 1]
    /\ UNCHANGED <<isRunning, stopChan, calls, panicked>>
    /\ UNCHANGED startRest

NextStartStop ==
    \/ Start
    \/ Stop
    \/ WatchLoopBegin
    \/ WatchLoopReturn

SpecStartStop == InitStartStop /\ [][NextStartStop]_vars

\* ================================================================ claims

\* the quota an activation on this host writes
SharedQuotaOfHost ==
    FormatQuota(Max(totalCores - cfg.MinSystemCores, 1) * QuotaPeriod)
InCycle == cyc.op = "cycle"

\* C1: once a control cycle has switched the limits on at t0, the limits
\* stay on and no control cycle decides DEACTIVATE while
\* now - t0 < MinActiveTime, whatever the snapshots are.
C1_MinActiveTime ==
    (t0 # ZeroTime /\ now - t0 < cfg.MinActiveTime) =>
        /\ limitsActive
        /\ ~(InCycle /\ cyc.decision = DecisionDeactivate)

\* a cycle inside the window whose snapshot asks for a release
C1_Witness ==
    /\ t0 # ZeroTime /\ now > t0 /\ now - t0 < cfg.MinActiveTime
    /\ InCycle /\ cyc.wasActive /\ limitsActive
    /\ cyc.metrics.TotalUserCPUUsage < cfg.CPUReleaseThreshold
    /\ ~cyc.metrics.SystemUnderLoad
    /\ cyc.decision = DecisionMaintain

\* C2: with the limits inactive the decision is ACTIVATE exactly when
\* usage >= CPUThreshold and TotalCores > MinSystemCores and
\* (IgnoreSystemLoad or not under load); otherwise it is MAINTAIN.
C2_InactiveDecision ==
    (InCycle /\ ~cyc.wasActive) =>
        IF /\ cyc.metrics.TotalUserCPUUsage >= cfg.CPUThreshold
           /\ cyc.metrics.TotalCores > cfg.MinSystemCores
           /\ (cfg.IgnoreSystemLoad \/ ~cyc.metrics.SystemUnderLoad)
        THEN cyc.decision = DecisionActivate
        ELSE cyc.decision = DecisionMaintain

\* an activation at exactly the threshold, under load, with the load ignored
C2_Witness ==
    /\ InCycle /\ ~cyc.wasActive
    /\ cyc.metrics.TotalUserCPUUsage = cfg.CPUThreshold
    /\ cyc.metrics.SystemUnderLoad /\ cfg.IgnoreSystemLoad
    /\ cyc.decision = DecisionActivate

\* C3: with the limits active and MinActiveTime elapsed, the decision is
\* DEACTIVATE whenever usage < CPUReleaseThreshold and
\* (IgnoreSystemLoad or not under load).
C3_ReleaseIgnoresLoad ==
    (/\ InCycle /\ cyc.wasActive /\ cyc.elapsed
     /\ cyc.metrics.TotalUserCPUUsage < cfg.CPUReleaseThreshold
     /\ (cfg.IgnoreSystemLoad \/ ~cyc.metrics.SystemUnderLoad))
        => cyc.decision = DecisionDeactivate

\* C4: a snapshot with CPUReleaseThreshold <= usage < CPUThreshold gives
\* MAINTAIN whether the limits are active or not, and a MAINTAIN cycle with
\* the limits inactive changes neither the manager's state nor the cgroup
\* tree, and starts no goroutine.
C4_MaintainBetweenThresholds ==
    [][cyc'.op = "cycle" =>
        /\ (/\ cfg.CPUReleaseThreshold <= cyc'.metrics.TotalUserCPUUsage
            /\ cyc'.metrics.TotalUserCPUUsage < cfg.CPUThreshold)
               => cyc'.decision = DecisionMaintain
        /\ (cyc'.decision = DecisionMaintain /\ ~limitsActive)
               => UNCHANGED <<stateVars, fsVars, taskVars>>]_vars

\* a MAINTAIN cycle between the thresholds, limits inactive, tree not empty
C4_Witness ==
    /\ InCycle /\ ~cyc.wasActive /\ ~limitsActive
    /\ cfg.CPUReleaseThreshold <= cyc.metrics.TotalUserCPUUsage
    /\ cyc.metrics.TotalUserCPUUsage < cfg.CPUThreshold
    /\ cyc.decision = DecisionMaintain
    /\ dirs # {}

\* C5: while the limits are active, at the end of every control cycle every
\* UID of the cycle's active users is tracked.
C5_NoUserEscapes ==
    (InCycle /\ limitsActive) => cyc.metrics.ActiveUsers \subseteq activeUsers

\* C6: limitsActive is true if and only if sharedCgroupPath is non-empty.
C6_ActiveIffSharedPath == limitsActive <=> sharedCgroupPath # ""

\* C7: whenever the limits are active, limited/cpu.max holds the quota
\* max(TotalCores - MinSystemCores, 1) * 100000 with period 100000.
C7_QuotaWrittenWhenActive ==
    limitsActive => LimitedDir \in dirs /\ sharedCpuMax = SharedQuotaOfHost

\* C8: after every control cycle the tracked users are a subset of the
\* cycle's active users.
C8_TrackedSubsetOfActive ==
    InCycle => activeUsers \subseteq cyc.metrics.ActiveUsers

\* C9: when a cycle that decided DEACTIVATE returns, no user is tracked,
\* the limits are inactive, sharedCgroupPath is empty and limited/ is gone.
C9_DeactivateCleansUp ==
    (InCycle /\ cyc.decision = DecisionDeactivate) =>
        /\ activeUsers = {} /\ ~limitsActive /\ sharedCgroupPath = ""
        /\ LimitedDir \notin dirs

\* C10: activate followed by deactivate, their goroutines finished, leaves
\* the directories under <cgroup_root>/<base> as activate found them.
C10_RoundTrip ==
    (roundTrip.phase = "deactivated" /\ NoTasks) =>
        BaseDirs(dirs) = roundTrip.before

\* C11: once the limits are inactive again and the goroutines of the
\* deactivation have finished, no UID has processes left in a cgroup under
\* limited/ (processes get there only while the limits are active).
C11_NoUserStranded ==
    (~limitsActive /\ NoTasks) => \A u \in Users : procCgroup[u] # "limited"

\* C12: no PID whose process belongs to a UID outside
\* [SystemUIDMin, SystemUIDMax] is ever written to a cgroup.procs, whatever
\* processes exit and whatever PIDs are reused during a placement scan.
C12_OnlyUserPidsWritten == \A u \in written : isValidUserUID(u)

\* C13: when two control cycles in a row call activateLimits with the same
\* snapshot and every file system call made by both gets the same answer,
\* the second call creates no directory, writes no quota, starts no
\* placement goroutine and leaves limitsActive, limitsAppliedTime and the
\* tracked users as the first call left them.
C13_ActivateIdempotent ==
    [][(/\ cyc.op = "cycle" /\ cyc.decision = DecisionActivate
        /\ cyc'.op = "cycle" /\ cyc'.decision = DecisionActivate
        /\ cyc'.metrics = cyc.metrics
        /\ cyc'.env.act.sharedOK = cyc.env.act.sharedOK
        /\ cyc'.env.act.subOK = cyc.env.act.subOK
        /\ (sharedCgroupPath = "" =>
               cyc'.env.act.quotaOK = cyc.env.act.quotaOK))
       => UNCHANGED <<limitsActive, limitsAppliedTime, activeUsers, dirs,
                      sharedCpuMax, placeTasks>>]_vars

\* C14: the validator accepts a string exactly when it is "max" or a
\* decimal integer N >= 0, then one space, then a decimal integer M >= 1;
\* every other string is rejected.
C14_QuotaLanguage ==
    LET IsDecimal(t) == Len(t) > 0 /\ \A i \in DOMAIN t : t[i] \in Digits
        AtLeastOne(t) == \E i \in DOMAIN t : t[i] # "0"
        InLanguage(str) ==
            \E k \in DOMAIN str :
                LET left == SubSeq(str, 1, k - 1)
                    right == SubSeq(str, k + 1, Len(str))
                IN  /\ str[k] = " "
                    /\ (left = MaxToken \/ IsDecimal(left))
                    /\ IsDecimal(right) /\ AtLeastOne(right)
    IN  quotaResult # "none" =>
            (quotaResult = "accepted" <=> InLanguage(quota))

\* C15: a DEACTIVATE cycle whose CPUQuotaNormal fails the format check
\* gets an error from ApplyCPULimit for every tracked UID, and those calls
\* have created no cgroup directory and changed neither createdCgroups nor
\* the tracking file.
C15_RejectedBeforeAnyWrite ==
    [][(/\ cyc'.op = "cycle" /\ cyc'.decision = DecisionDeactivate
        /\ ~isValidCPUQuotaFormat(cfg.CPUQuotaNormal)
        /\ activeUsers # {})
       => /\ cyc'.err
          /\ {d \in dirs' : d[1] = "base"} = {d \in dirs : d[1] = "base"}
          /\ createdCgroups' = createdCgroups
          /\ trackingFile' = trackingFile]_vars

\* C16: the tracking file holds the line "<uid>:<path>" for exactly the
\* directories limited/user_<uid> that exist.
C16_TrackingFileMatchesTree ==
    {trackingFile[i] : i \in DOMAIN trackingFile} =
        {<<d[2], d>> : d \in {x \in dirs : x[1] = "limited" /\ x[2] \in Users}}

\* C17: after startup the tracked users are exactly the UIDs of the
\* tracking-file entries whose directory exists, and the file holds no
\* entry whose directory is missing.
C17_TrackingFileRecovery ==
    mainPc = "start" =>
        /\ activeUsers = {trackingFile[i][1] :
                             i \in {j \in DOMAIN trackingFile :
                                        trackingFile[j][2] \in dirs}}
        /\ \A i \in DOMAIN trackingFile : trackingFile[i][2] \in dirs

\* C18: a failure for one UID does not stop the others. In an activation
\* that got past the shared cgroup, every new UID whose sub-cgroup can be
\* created is tracked and gets its placement goroutine, and the call
\* returns an error exactly when some creation failed. In a deactivation
\* every tracked UID whose ApplyCPULimit can succeed gets its goroutine, and
\* the call returns an error exactly when some ApplyCPULimit failed.
C18_PerUidFailuresDoNotAbort ==
    [][cyc'.op = "cycle" =>
        LET m == cyc'.metrics
            act == cyc'.env.act
            deact == cyc'.env.deact
            new == m.ActiveUsers \ activeUsers
            restorable(u) ==
                /\ isValidCPUQuotaFormat(cfg.CPUQuotaNormal)
                /\ u \in deact.limitOK
                /\ (getUserCgroupPath(u) \in dirs
                       \/ u \notin DOMAIN createdCgroups)
        IN  /\ (/\ cyc'.decision = DecisionActivate
                /\ (sharedCgroupPath # "" \/ (act.sharedOK /\ act.quotaOK)))
               => /\ \A u \in new \cap act.subOK :
                        /\ u \in activeUsers'
                        /\ placeTasks'[u] = placeTasks[u] + 1
                  /\ cyc'.err <=> (new \ act.subOK # {})
            /\ cyc'.decision = DecisionDeactivate
               => /\ \A u \in activeUsers :
                        restorable(u) => restoreTasks'[u] = restoreTasks[u] + 1
                  /\ cyc'.err <=> (\E u \in activeUsers : ~restorable(u))
      ]_vars

\* a deactivation whose first UID could not be restored and whose second
\* UID was restored all the same
C18_Witness ==
    /\ InCycle /\ cyc.decision = DecisionDeactivate /\ cyc.err
    /\ Len(cyc.env.deact.order) = 2
    /\ cyc.env.deact.order[1] \notin cyc.env.deact.limitOK
    /\ cyc.env.deact.order[2] \in cyc.env.deact.limitOK
    /\ restoreTasks[cyc.env.deact.order[2]] = 1

\* C19: a control cycle in which /proc cannot be read executes no decision
\* and changes neither limitsActive, limitsAppliedTime, the tracked users
\* nor the cgroup tree.
C19_UnreadableProcSkipsCycle ==
    [][(cyc'.op = "cycle" /\ ~cyc'.procOK) =>
        /\ cyc'.decision \notin {DecisionActivate, DecisionDeactivate}
        /\ UNCHANGED <<limitsActive, limitsAppliedTime, activeUsers, dirs>>
      ]_vars

\* C20: a new configuration is applied (OnConfigChange runs, clearing the
\* metrics cache) only between the end of one RunControlCycle and the
\* start of the next, never while a cycle is in progress.
C20_ReloadBetweenCycles == clearedAt \subseteq {0}

\* C30: every configuration LoadAndValidate accepts has
\* 1 <= release_pct < activate_pct <= 100, a polling interval of at least
\* 5 s, 0 <= uid_min <= uid_max, a log level among DEBUG, INFO, WARN and
\* ERROR, and a CPU_QUOTA_LIMITED of the form "max M" or "N M" with N >= 0
\* and M >= 1 written in digits.
C30_AcceptedConfigInRange ==
    (loaded # NotLoaded /\ ~loaded.err) =>
        LET c == loaded.cfg
            parts == Split(c.CPUQuotaLimited)
            IsNumber(tok) ==
                Len(tok) > 0 /\ \A i \in DOMAIN tok : tok[i] \in Digits
            IsPositive(tok) ==
                IsNumber(tok) /\ \E i \in DOMAIN tok : tok[i] # "0"
        IN  /\ 1 <= c.CPUReleaseThreshold
            /\ c.CPUReleaseThreshold < c.CPUThreshold
            /\ c.CPUThreshold <= 100
            /\ c.PollingInterval >= 5
            /\ 0 <= c.SystemUIDMin /\ c.SystemUIDMin <= c.SystemUIDMax
            /\ c.LogLevel \in {"DEBUG", "INFO", "WARN", "ERROR"}
            /\ Len(parts) = 2
            /\ (parts[1] = MaxToken \/ IsNumber(parts[1]))
            /\ IsPositive(parts[2])

\* C21: a control cycle that starts after a reload has completed decides
\* with the thresholds of the reloaded configuration: with the limits
\* inactive, a snapshot whose user CPU usage reaches the new CPU_THRESHOLD
\* (on a host with more cores than MinSystemCores and no load veto) yields
\* ACTIVATE_LIMITS.
C21_CycleUsesReloadedThreshold ==
    [][ ( /\ now' # now
          /\ handler["watch"] = IdleHandler("applied")
          /\ ~limitsActive
          /\ cyc'.metrics.TotalUserCPUUsage >= currentConfig.CPUThreshold
          /\ cyc'.metrics.TotalCores > currentConfig.MinSystemCores
          /\ (currentConfig.IgnoreSystemLoad \/ ~cyc'.metrics.SystemUnderLoad) )
        => cyc'.decision = DecisionActivate
      ]_vars

\* C22: Watcher.currentConfig and the last applied (mtime, size) change
\* only in the final step of a handleConfigChange whose file loaded and
\* validated (1 <= release < activate <= 100 for the files explored) and
\* whose OnConfigChange has returned, and then to that very configuration
\* and file state; a call that stops earlier leaves both as they were, and
\* a call whose file state differs from the last applied one is not cut
\* short by the comparison, so a corrected file is loaded again.
C22_ConfigReplacedOnlyOnSuccess ==
    [][ /\ (currentConfig' # currentConfig \/ lastApplied' # lastApplied) =>
            \E h \in Handlers :
                /\ handler[h].pc = "update"
                /\ handler'[h] = IdleHandler("applied")
                /\ 1 <= handler[h].newConfig.CPUReleaseThreshold
                /\ handler[h].newConfig.CPUReleaseThreshold
                       < handler[h].newConfig.CPUThreshold
                /\ handler[h].newConfig.CPUThreshold <= 100
                /\ currentConfig' = handler[h].newConfig
                /\ lastApplied' = handler[h].info
        /\ \A h \in Handlers :
              (handler[h].pc # "idle" /\ handler'[h].pc = "idle"
               /\ handler'[h].ret # "applied") =>
                  UNCHANGED <<currentConfig, lastApplied>>
        /\ \A h \in Handlers :
              (handler[h].pc = "compare" /\ handler'[h] # handler[h]
               /\ FileInfo(handler[h].info) # lastApplied) =>
                  handler'[h].pc = "load"
      ]_vars

\* a SIGHUP reload failed on the first rewrite of the file, which did not
\* validate, and the watch loop then applied the corrected second one
C22_Witness ==
    /\ handler["hup"] = IdleHandler("invalid")
    /\ handler["watch"] = IdleHandler("applied")
    /\ lastApplied.mtime = 2
    /\ currentConfig.CPUThreshold = 50
    /\ appliedInfos = <<lastApplied>>

\* C24: no (mtime, size) state of the configuration file is handed to
\* Reloader.OnConfigChange more than once, however the reload started by a
\* SIGHUP and the debounced reload of the watch loop interleave.
C24_EachFileStateAppliedOnce ==
    \A i, j \in DOMAIN appliedInfos :
        i # j => appliedInfos[i] # appliedInfos[j]

\* C25: every call of HandleConfigChange made for a SIGHUP re-reads the
\* configuration file and applies it: when the call has returned, it has
\* gone through LoadAndValidate, OnConfigChange and the update of the
\* watcher.
C25_SighupRereadsAndApplies ==
    handler["hup"].pc = "idle" => handler["hup"].ret \in {"none", "applied"}

\* C23: the first notification received while no reload is pending opens
\* a debounce period and arms the timer for 2 s later; every notification
\* received before the reload attempt of that period belongs to it and
\* neither re-arms the timer nor starts an attempt; the period ends with
\* exactly one call of handleConfigChange, not earlier than 2 s after it
\* was opened; a notification received after that call opens a new period.
C23_OneAttemptPerDebounceWindow ==
    [][ /\ windows = attempts + (IF wPending THEN 1 ELSE 0)
        /\ (events' < events /\ wPending) =>
              UNCHANGED <<wPending, timerAt, openedAt, windows, attempts>>
        /\ (events' < events /\ ~wPending) =>
              /\ wPending' /\ windows' = windows + 1
              /\ timerAt' = {clock + DebounceSecs}
              /\ attempts' = attempts
        /\ attempts' # attempts =>
              /\ attempts' = attempts + 1
              /\ wPending /\ ~wPending' /\ timerAt' = {}
              /\ clock >= openedAt + DebounceSecs
              /\ windows' = windows
      ]_vars

\* the notifications of two writes were both received within one period,
\* which ended with a single attempt that applied the second write
C23_Witness ==
    /\ attempts = 1 /\ windows = 1 /\ ~wPending
    /\ confFile.mtime = 2 /\ events = 0
    /\ lastApplied.mtime = 2

\* C26: once main has returned from the shutdown branch, the limits are
\* inactive, no UID is tracked and the tracking file is empty or absent;
\* and after the context is cancelled main starts no control cycle.
C26_ShutdownLeavesNothing ==
    /\ [](mainPc = "returned" =>
            /\ ~limitsActive
            /\ activeUsers = {}
            /\ trackingFile = <<>>)
    /\ [][ctxDone => ~(/\ cyc'.op = "cycle"
                       /\ now' # now \/ mainPc' # mainPc)]_vars

\* C27: a process that received SIGINT or SIGTERM does not stay inside
\* Cleanup and is not ended by the forced-exit goroutine: its exit status,
\* once it has one, is 0.
C27_GracefulExitZero ==
    ctxDone => mainPc # "blocked" /\ exitCode \in {NoExit, 0}

\* C28: when verifyCgroupSetup has returned nil, the root cgroup.controllers
\* lists the controller cpu, and the controllers cpu and cpuset are both
\* enabled in the cgroup.subtree_control of the root and of <base>.
C28_PrepareEnablesCpuAndCpuset ==
    prepPc = "done" /\ prepErr = "" =>
        /\ "cpu" \in rootControllers
        /\ {"cpu", "cpuset"} \subseteq rootSubtree
        /\ {"cpu", "cpuset"} \subseteq baseSubtree

\* C29: a call getFromCache(key, ttl) that returns a value returns the one
\* of the last setInCache for the key, and that call was made no more than
\* ttl before and after the most recent ClearCache.
C29_HitOnlyWithinTTLSinceClear ==
    lookup.valid =>
        /\ stored[lookup.key] # NotStored
        /\ cacheClock - stored[lookup.key].at <= lookup.ttl
        /\ lookup.val = stored[lookup.key].val

\* a value is returned exactly ttl after it was stored
C29_Witness ==
    /\ lookup.valid
    /\ lookup.ttl = DefaultConfig.MetricsCacheTTL
    /\ cacheClock = stored[lookup.key].at + lookup.ttl
    /\ cacheClock > lookup.ttl

\* C31: the configuration in effect has MinSystemCores >= 1, and the quota
\* an activation wrote to limited/cpu.max is n * 100000 for some n with
\* 1 <= n <= totalCores - 1.
C31_OneCoreWithheld ==
    /\ cfg.MinSystemCores >= 1
    /\ sharedCpuMax # NoQuota =>
         \E n \in 1..(totalCores - 1) :
             sharedCpuMax = FormatQuota(n * QuotaPeriod)

\* C32: once main has configured the logger, Logger.level is the level of
\* the configuration applied last (at start-up or by a reload), so the next
\* log call is filtered by it, and the logger writes to the configured file
\* when that file can be opened (to stdout once a rotation could not reopen
\* it).
C32_ConfiguredLogLevelInEffect ==
    logPc = "running" =>
        /\ logLevel = parseLogLevel(want.level)
        /\ want.file \in canOpen => logSink \in {want.file, "stdout"}

\* C38: no log call waits for Logger.mu while its own goroutine holds it,
\* so every log call returns and releases the mutex.
C38_LogCallReturns ==
    \A g \in Loggers : ~(logCall[g] = "relock" /\ logMu = g)

\* C33: limits that are active when the snapshots turn low for good are
\* eventually switched off by a control cycle.
C33_ReleaseLiveness == (calm /\ limitsActive) ~> ~limitsActive

\* a cycle of the calm phase has decided DEACTIVATE after MinActiveTime
C33_Witness ==
    /\ calm /\ ~limitsActive
    /\ InCycle /\ cyc.wasActive /\ cyc.decision = DecisionDeactivate
    /\ LowSnapshot(cyc.metrics)
    /\ now - t0 >= cfg.MinActiveTime


\* a step of a placement goroutine: one pending task of some UID has run
PlacementStep == \E u \in Users : placeTasks'[u] < placeTasks[u]

\* C34: a placement goroutine started by activateLimits does nothing once
\* deactivateLimits has cleared the shared path and removed the shared
\* subtree: whenever such a goroutine runs, the shared path it reads is not
\* empty and it creates no user_<UID> directory, neither under limited/ nor
\* relative to the working directory.
C34_PlacementStopsAfterTeardown ==
    [][PlacementStep =>
          /\ sharedCgroupPath # ""
          /\ \A p \in dirs' \ dirs : p[1] \notin {"limited", "cwd"}]_vars

\* C35: a placement goroutine creates nothing outside limited/: it adds no
\* directory of another tree, no entry of createdCgroups and no line of the
\* tracking file.
C35_PlacementWritesOnlyInsideLimited ==
    [][PlacementStep =>
          /\ \A p \in dirs' \ dirs : p[1] = "limited"
          /\ createdCgroups' = createdCgroups
          /\ trackingFile' = trackingFile]_vars


\* C36: a call of GetStatus and a control cycle that asks for the write
\* lock never end up waiting for each other: no caller of GetStatus holds
\* its read lock, with the read lock of getActiveUsersList still to take,
\* while a Lock is pending (the RLock would wait for the Lock, and the Lock
\* for the RUnlock of GetStatus).
C36_GetStatusReturns ==
    ~(rwWriter = "pending" /\ \E r \in Readers : statusPc[r] = "locked")


\* C37: whatever Start and Stop calls are made on a Watcher, and in
\* whatever order, none of them closes the stop channel a second time: no
\* call panics.
C37_StopChanClosedOnce == ~panicked


\* C39: no notification is lost by the debounce: whenever a notification
\* has been received and its reload is pending, with n attempts made so
\* far, the watch loop eventually makes attempt n + 1, which starts after
\* that notification was received.
C39_NoNotificationLost ==
    \A n \in 0..MaxReloads :
        (wPending /\ attempts = n) ~> (attempts > n)

\* two notifications were received within one debounce period, the second
\* while the reload was pending, and the attempt ran when the period ended
C39_Witness ==
    /\ confFile.mtime = 2 /\ events = 0
    /\ windows = 1 /\ attempts = 1 /\ ~wPending /\ timerAt = {}
    /\ clock = openedAt + DebounceSecs
====
